---- MODULE Spec2Model ----
(***************************************************************************)
(* A model of the hyparquet reader: Dremel record assembly               *)
(* (src/assemble.js), the RLE/bit-packed hybrid decoder (src/encoding.js) *)
(* and the footer/metadata parser (parquetMetadata).                      *)
(***************************************************************************)
EXTENDS Integers, Sequences, FiniteSets, TLC

VARIABLES
    \* ---- assembleObjects (src/assemble.js) ----
    definitionLevels,    \* parameter: definition levels D (possibly empty)
    repetitionLevels,    \* parameter: repetition levels R
    values,              \* parameter: values V
    isNullable,          \* parameter
    maxDefinitionLevel,  \* parameter
    maxRepetitionLevel,  \* parameter
    heap,                \* the arrays allocated so far: id -> sequence of items
    containerStack,      \* stack of array ids, bottom first
    currentContainer,    \* array id
    valueIndex,          \* number of values consumed (0-based index of the next)
    i,                   \* loop index of the main loop (0-based)
    asmPc,               \* "idle" | "loop" | "done"
    asmResult,           \* id of the returned array, 0 before the return
    \* ---- readRleBitPackedHybrid (src/encoding.js) ----
    view,                \* reader.view: the bytes of the DataView
    offset,              \* reader.offset
    width,               \* parameter: bit width
    length,              \* parameter, then the local: byte length of the stream
    numValues,           \* parameter: number of values to read
    value,               \* the array of decoded values
    startOffset,         \* reader.offset at the start of the runs
    rlePc,               \* "idle" | "call" | "loop" | "done" | "error"
    rleError,            \* message of the error thrown, "" when none
    \* ---- parquetMetadata ----
    arrayBuffer,         \* parameter: the bytes of the file
    mdPc,                \* "idle" | "start" | "length" | "decode" | "reshape"
                         \*   | "done" | "error"
    mdError,             \* message of the error thrown, "" when none
    metadataLength,      \* the local, -1 before it is read
    metadataBuffer,      \* the slice handed to the Thrift decoder
    metadata,            \* the decoded Thrift tree, undefined before
    mdResult,            \* the returned FileMetaData, undefined before
    thriftCalls,         \* calls of deserializeTCompactProtocol so far
    \* ---- deserializeTCompactProtocol (thrift.ts) ----
    thBuffer,            \* parameter: the bytes to decode
    thByteLength,        \* the local: index of the next byte
    thLastFid,           \* the local: id of the last field read
    thValue,             \* the local value: the object decoded so far
    thType,              \* type of the last field header read
    thFid,               \* fid of the last field header read
    thPc,                \* "idle" | "loop" | "element" | "done" | "error"
    thError,             \* message of the error thrown, "" when none
    \* ---- toVarInt, readVarInt, readVarBigInt (thrift.ts) ----
    viArg,               \* toVarInt: the number n the caller passed
    viN,                 \* toVarInt: the parameter n as the loop shifts it
    varInt,              \* toVarInt: the array of the numbers produced
    viView,              \* readVarInt: the bytes of the view
    viIndex,             \* readVarInt: index of the next byte
    viResult,            \* readVarInt: the local result
    viShift,             \* readVarInt: the local shift
    viBig,               \* TRUE for readVarBigInt, FALSE for readVarInt
    viPc,                \* "idle" | "encode" | "encoded" | "read" | "done"
                         \*   | "error"
    viError,             \* message of the error thrown, "" when none
    \* ---- readPlain (src/encoding.js) ----
    plView,              \* reader.view: the bytes of the DataView
    plRest,              \* the bytes of reader.view.buffer after the view
    plOffset,            \* reader.offset
    plStart,             \* reader.offset at the call
    plType,              \* parameter type
    plCount,             \* parameter count
    plUtf8,              \* parameter utf8
    plTypeLength,        \* type_length of the column read, 0 when it has none
    plResult,            \* the returned array, undefined before the return
    plPc,                \* "idle" | "call" | "done" | "error"
    plError,             \* message of the error thrown, "" when none
    \* ---- readDataPage (src/datapage.js), readDataPageV2 (src/datapageV2.js) ----
    pgVersion,           \* 1 for readDataPage, 2 for readDataPageV2, 0 when idle
    pgBytes,             \* parameter bytes / compressedBytes: the page
    pgHeader,            \* parameter daph / ph.data_page_header_v2, with
                         \*   ph.uncompressed_page_size
    pgColumn,            \* columnMetadata and what the schema says of its path
    pgCompressors,       \* parameter compressors: the codecs it holds
    pgOffset,            \* reader.offset
    pgRepetitionLevels,  \* repetitionLevels
    pgDefinitionLevels,  \* definitionLevels
    pgNumNulls,          \* numNulls
    pgValues,            \* values / dataPage
    pgDecompressed,      \* the calls of decompressPage so far
    pgPc,                \* "idle" | "repetition" | "definition" | "values"
                         \*   | "done" | "error"
    pgError,             \* message of the error thrown, "" when none
    \* ---- one run: readRle, readBitPacked (src/encoding.js) ----
    rnView,              \* reader.view: the bytes of the DataView
    rnStart,             \* reader.offset at the call, after the run header
    rnOffset,            \* reader.offset
    rnHeader,            \* parameter: the run header
    rnBitWidth,          \* parameter: the bit width
    rnRemaining,         \* parameter of readBitPacked: values still wanted
    rnKind,              \* "rle" | "bitpacked": the function called
    rnValue,             \* the array returned
    rnLocals,            \* count, data, left, right, value, ... of readBitPacked
    rnPc,                \* "idle" | "call" | "loop" | "done" | "error"
    rnError,             \* message of the error thrown, "" when none
    \* ---- deltaBinaryUnpack of delta.js
    dlStream,            \* what the bytes of the view encode (first value, blocks)
    dlView,              \* reader.view, a sequence of bytes
    dlOffset,            \* reader.offset
    dlNValues,           \* nValues
    dlOutput,            \* output, the elements written so far
    dlOutputIndex,       \* outputIndex
    dlValue,             \* value, the running sum
    dlBlockSize,         \* blockSize
    dlMiniblockPerBlock, \* miniblockPerBlock
    dlMinDelta,          \* minDelta of the current block
    dlBitWidths,         \* bitWidths of the current block
    dlI,                 \* i, the index of the current miniblock
    dlMiniblockCount,    \* miniblockCount, values left in the current miniblock
    dlBitpackPos,        \* bitpackPos, the bit position inside the current byte
    dlBlocksRead,        \* how many block headers have been read
    dlPc,                \* "idle" | "call" | "block" | "miniblock" | "bits" | "done" | "error"
    dlError,             \* message of the error thrown, "" when none
    \* ---- deltaBinaryUnpack of datapageV2.js
    d2Page,              \* page, the bytes of the view
    d2NValues,           \* nValues
    d2Values,            \* values (dataPage of readDataPageV2)
    d2Offset,            \* reader.offset
    d2Head,              \* blockSize, miniblockPerBlock and count of the header
    d2Value,             \* value
    d2ValueIndex,        \* valueIndex
    d2MinDelta,          \* minDelta of the current block
    d2BitWidths,         \* bitWidths of the current block
    d2I,                 \* i, the index of the current miniblock
    d2Data,              \* data
    d2Stop,              \* stop
    d2Spin,              \* parity of the pushes whose values are not kept
    d2Pc,                \* "idle" | "call" | "miniblocks" | "count" | "first" | "block" |
                         \* "miniblock" | "bits" | "done" | "error"
    d2Error,             \* message of the error thrown, "" when none
    \* ---- self.onmessage of parquetWorker.js
    wkData,              \* data of the message of every query: queryId and chunks
    wkPosted,            \* the messages posted by self.postMessage, in order
    wkChunks,            \* number of calls of onChunk made for every query
    wkPc                 \* position of the handler of every query: "idle" | "open" |
                         \* "query" | "done" | "rejected"

asmVars == <<definitionLevels, repetitionLevels, values, isNullable,
             maxDefinitionLevel, maxRepetitionLevel, heap, containerStack,
             currentContainer, valueIndex, i, asmPc, asmResult>>

rleVars == <<view, offset, width, length, numValues, value, startOffset,
             rlePc, rleError>>

mdVars == <<arrayBuffer, mdPc, mdError, metadataLength, metadataBuffer,
            metadata, mdResult, thriftCalls>>

thVars == <<thBuffer, thByteLength, thLastFid, thValue, thType, thFid, thPc,
           thError>>

viVars == <<viArg, viN, varInt, viView, viIndex, viResult, viShift, viBig,
           viPc, viError>>

plVars == <<plView, plRest, plOffset, plStart, plType, plCount, plUtf8, plTypeLength,
           plResult, plPc, plError>>

pgVars == <<pgVersion, pgBytes, pgHeader, pgColumn, pgCompressors, pgOffset,
           pgRepetitionLevels, pgDefinitionLevels, pgNumNulls, pgValues,
           pgDecompressed, pgPc, pgError>>

rnVars == <<rnView, rnStart, rnOffset, rnHeader, rnBitWidth, rnRemaining, rnKind,
           rnValue, rnLocals, rnPc, rnError>>

dlVars == <<dlStream, dlView, dlOffset, dlNValues, dlOutput, dlOutputIndex,
           dlValue, dlBlockSize, dlMiniblockPerBlock, dlMinDelta, dlBitWidths,
           dlI, dlMiniblockCount, dlBitpackPos, dlBlocksRead, dlPc, dlError>>

d2Vars == <<d2Page, d2NValues, d2Values, d2Offset, d2Head, d2Value,
           d2ValueIndex, d2MinDelta, d2BitWidths, d2I, d2Data, d2Stop, d2Spin,
           d2Pc, d2Error>>

wkVars == <<wkData, wkPosted, wkChunks, wkPc>>

vars == <<asmVars, rleVars, mdVars, thVars, viVars, plVars, pgVars, rnVars,
          dlVars, d2Vars, wkVars>>

----------------------------------------------------------------------------
(* Bounds of the model *)

MaxLevels == 3      \* longest enumerated level sequence
MaxRep == 2         \* largest enumerated maxRepetitionLevel
MaxDef == 3         \* largest enumerated maxDefinitionLevel
MaxBytes == 4       \* longest enumerated RLE/bit-packed stream
MaxNumValues == 3   \* largest enumerated numValues
MaxBody == 2        \* most bytes between the header and the metadata
MaxFields == 2      \* most fields of an enumerated Thrift buffer
MaxVarintBytes == 11  \* most continuation bytes of an enumerated varint
MaxPlainBytes == 24 \* longest enumerated view of readPlain
MaxPlainCount == 2  \* largest enumerated count of readPlain
MaxPageValues == 2  \* largest enumerated num_values of a page
MaxLevelBytes == 2  \* largest enumerated byte length of a V2 level section
MaxRunGroups == 2   \* largest enumerated count of groups of a bit-packed run

----------------------------------------------------------------------------
(* Generic helpers *)

Max(a, b) == IF a >= b THEN a ELSE b
Min(a, b) == IF a <= b THEN a ELSE b

SeqsUpTo(S, n) == UNION {[1..k -> S] : k \in 0..n}

RECURSIVE CountEq(_, _)
CountEq(s, v) ==
    IF s = <<>> THEN 0
    ELSE (IF s[1] = v THEN 1 ELSE 0) + CountEq(Tail(s), v)

Iota(n) == [k \in 1..n |-> k]

----------------------------------------------------------------------------
(* assembleObjects: the heap of JS arrays.                                 *)
(* An item is a value, a reference to another array, or undefined.         *)

ValItem(v) == [t |-> "val", x |-> v]
ListItem(id) == [t |-> "list", x |-> id]
UndefItem == [t |-> "undef", x |-> 0]

\* const output = []  -- the first array allocated
output == 1

\* the state of the function's arrays: h heap, s containerStack, c currentContainer
Asm(h, s, c) == [h |-> h, s |-> s, c |-> c]

\* currentContainer.push(item)
Push(h, c, item) == [h EXCEPT ![c] = Append(@, item)]

\* while (rep < containerStack.length - 1) containerStack.pop()
RECURSIVE PopTo(_, _)
PopTo(s, rep) ==
    IF rep < Len(s) - 1 THEN PopTo(SubSeq(s, 1, Len(s) - 1), rep) ELSE s

\* a bug: the stack is popped but currentContainer stays where it was
MoveBackStale(a, rep, maxRep) ==
    IF rep # maxRep THEN Asm(a.h, PopTo(a.s, rep), a.c) ELSE a

\* if (rep !== maxRepetitionLevel) { pop ...; currentContainer = containerStack.at(-1) }
MoveBack(a, rep, maxRep) ==
    IF rep # maxRep
    THEN LET s == PopTo(a.s, rep) IN Asm(a.h, s, s[Len(s)])
    ELSE a

\* a bug: the non-nullable target depth taken as maxRep instead of maxRep + 1
BelowTargetDepthShallow(j, nullable, def, maxRep) ==
    IF nullable THEN 2 * j < def + 1 ELSE j < maxRep

\* j < targetDepth, with targetDepth = isNullable ? (def + 1) / 2 : maxRep + 1
\* (a real-valued quotient in JS: j < (def + 1) / 2 iff 2 j < def + 1)
BelowTargetDepth(j, nullable, def, maxRep) ==
    IF nullable THEN 2 * j < def + 1 ELSE j < maxRep + 1

\* for (let j = containerStack.length; j < targetDepth; j++) { newList ... }
RECURSIVE AddLists(_, _, _, _, _)
AddLists(a, j, nullable, def, maxRep) ==
    IF BelowTargetDepth(j, nullable, def, maxRep)
    THEN LET newList == Len(a.h) + 1
             h1 == Append(Push(a.h, a.c, ListItem(newList)), <<>>)
         IN AddLists(Asm(h1, Append(a.s, newList), newList),
                     j + 1, nullable, def, maxRep)
    ELSE a

\* a bug: the parity test of the placeholder inverted
NullPlaceholderFlipped(h, def) ==
    IF def % 2 = 0 THEN ListItem(Len(h) + 1) ELSE UndefItem

\* the item pushed for a null: undefined when def is even, [] when it is odd
NullPlaceholder(h, def) ==
    IF def % 2 = 0 THEN UndefItem ELSE ListItem(Len(h) + 1)

\* Add value or null based on definition level
AddValue(a, def, maxDef, nullable, vals, vi) ==
    IF def = maxDef
    THEN [a |-> Asm(Push(a.h, a.c,
                         IF vi + 1 <= Len(vals) THEN ValItem(vals[vi + 1])
                         ELSE UndefItem),
                    a.s, a.c),
          vi |-> vi + 1]
    ELSE IF nullable
    THEN LET item == NullPlaceholder(a.h, def)
             h1 == Push(a.h, a.c, item)
         IN [a |-> Asm(IF item.t = "list" THEN Append(h1, <<>>) ELSE h1,
                       a.s, a.c),
             vi |-> vi]
    ELSE [a |-> a, vi |-> vi]

\* const def = definitionLevels?.length ? definitionLevels[i] : maxDefinitionLevel
DefAt(k) ==
    IF Len(definitionLevels) > 0
    THEN (IF k + 1 <= Len(definitionLevels) THEN definitionLevels[k + 1] ELSE -1)
    ELSE maxDefinitionLevel

\* one iteration of the main loop
AssembleStep ==
    /\ asmPc = "loop"
    /\ i < Len(repetitionLevels)
    /\ LET def == DefAt(i)
           rep == repetitionLevels[i + 1]
           a0 == Asm(heap, containerStack, currentContainer)
           a1 == MoveBack(a0, rep, maxRepetitionLevel)
           a2 == AddLists(a1, Len(a1.s), isNullable, def, maxRepetitionLevel)
           r  == AddValue(a2, def, maxDefinitionLevel, isNullable, values, valueIndex)
       IN /\ heap' = r.a.h
          /\ containerStack' = r.a.s
          /\ currentContainer' = r.a.c
          /\ valueIndex' = r.vi
    /\ i' = i + 1
    /\ UNCHANGED <<definitionLevels, repetitionLevels, values, isNullable,
                   maxDefinitionLevel, maxRepetitionLevel, asmPc, asmResult>>
    /\ UNCHANGED <<rleVars, mdVars, thVars, viVars, plVars, pgVars, rnVars,
                   dlVars, d2Vars, wkVars>>

\* a bug: no list is nested in the empty output
NestEmptyFlat(h, c, n) == [h |-> h, c |-> c]

\* for (let i = 0; i < maxDefinitionLevel; i++) { newList ... } after the loop
RECURSIVE NestEmpty(_, _, _)
NestEmpty(h, c, n) ==
    IF n > 0
    THEN LET newList == Len(h) + 1
         IN NestEmpty(Append(Push(h, c, ListItem(newList)), <<>>), newList, n - 1)
    ELSE [h |-> h, c |-> c]

\* Handle edge cases for empty inputs or single-level data, and return
AssembleReturn ==
    /\ asmPc = "loop"
    /\ i >= Len(repetitionLevels)
    /\ IF Len(heap[output]) = 0
       THEN IF Len(values) > 0 /\ maxRepetitionLevel = 0
            THEN \* return [values]
                 LET vs == Len(heap) + 1
                     wrap == Len(heap) + 2
                 IN /\ heap' = heap \o <<[k \in 1..Len(values) |-> ValItem(values[k])],
                                         <<ListItem(vs)>>>>
                    /\ asmResult' = wrap
                    /\ UNCHANGED currentContainer
            ELSE LET n == NestEmpty(heap, currentContainer, maxDefinitionLevel)
                 IN /\ heap' = n.h
                    /\ currentContainer' = n.c
                    /\ asmResult' = output
       ELSE /\ asmResult' = output
            /\ UNCHANGED <<heap, currentContainer>>
    /\ asmPc' = "done"
    /\ UNCHANGED <<definitionLevels, repetitionLevels, values, isNullable,
                   maxDefinitionLevel, maxRepetitionLevel, containerStack,
                   valueIndex, i>>
    /\ UNCHANGED <<rleVars, mdVars, thVars, viVars, plVars, pgVars, rnVars,
                   dlVars, d2Vars, wkVars>>

----------------------------------------------------------------------------
(* 32-bit integer operations of JavaScript (|, &, <<, >>, >>>), on the     *)
(* integers -2^31 .. 2^31 - 1. A word is its sign bit and its low 31 bits. *)

RECURSIVE Pow2(_)
Pow2(n) == IF n = 0 THEN 1 ELSE 2 * Pow2(n - 1)

SignBit(x) == IF x < 0 THEN 1 ELSE 0
Low31(x) == IF x >= 0 THEN x ELSE (x + 2147483647) + 1
Word(sign, low) == IF sign = 1 THEN (low - 2147483647) - 1 ELSE low

RECURSIVE BitAndNat(_, _)
BitAndNat(a, b) ==
    IF a = 0 \/ b = 0 THEN 0
    ELSE (a % 2) * (b % 2) + 2 * BitAndNat(a \div 2, b \div 2)

RECURSIVE BitOrNat(_, _)
BitOrNat(a, b) ==
    IF a = 0 THEN b
    ELSE IF b = 0 THEN a
    ELSE Max(a % 2, b % 2) + 2 * BitOrNat(a \div 2, b \div 2)

\* a & b
And32(a, b) == Word(SignBit(a) * SignBit(b), BitAndNat(Low31(a), Low31(b)))

\* a | b
Or32(a, b) == Word(Max(SignBit(a), SignBit(b)), BitOrNat(Low31(a), Low31(b)))

\* a << n  (the shift count is taken modulo 32)
Shl32(a, n) ==
    LET k == n % 32
        low == Low31(a)
    IN IF k = 0 THEN a
       ELSE Word((low \div Pow2(31 - k)) % 2,
                 IF k = 31 THEN 0 ELSE (low % Pow2(31 - k)) * Pow2(k))

\* a >> n  (sign-propagating)
Sar32(a, n) ==
    LET k == n % 32
    IN IF k = 31 THEN (IF a < 0 THEN -1 ELSE 0) ELSE a \div Pow2(k)

\* a >>> n  (zero-fill), for a shift count that is not a multiple of 32
Shr32(a, n) ==
    LET k == n % 32
    IN SignBit(a) * Pow2(31 - k) + (IF k = 31 THEN 0 ELSE Low31(a) \div Pow2(k))

----------------------------------------------------------------------------
(* DataView reads. A read outside the view throws a RangeError.            *)

InView(v, off, n) == off >= 0 /\ off + n <= Len(v)

\* view.getUint8(off), for a read inside the view
GetUint8(v, off) == v[off + 1]

\* view.getUint16(off, true)
GetUint16(v, off) == v[off + 1] + 256 * v[off + 2]

\* view.getInt32(off, true)
GetInt32(v, off) ==
    v[off + 1] + 256 * v[off + 2] + 65536 * v[off + 3]
      + 16777216 * (IF v[off + 4] >= 128 THEN v[off + 4] - 256 ELSE v[off + 4])

\* view.getUint32(off, true), for a word below 2^31
GetUint32(v, off) ==
    v[off + 1] + 256 * v[off + 2] + 65536 * v[off + 3] + 16777216 * v[off + 4]

\* the outcome of a step that may throw
Thrown(msg) == [ok |-> FALSE, err |-> msg]

\* readVarInt(view, index): [result, index], or a RangeError at the end of the view
RECURSIVE ReadVarIntFrom(_, _, _, _)
ReadVarIntFrom(v, index, result, shift) ==
    IF ~InView(v, index, 1) THEN Thrown("RangeError")
    ELSE LET byte == GetUint8(v, index)
             r == Or32(result, Shl32(And32(byte, 127), shift))
         IN IF And32(byte, 128) = 0
            THEN [ok |-> TRUE, result |-> r, index |-> index + 1]
            ELSE ReadVarIntFrom(v, index + 1, r, shift + 7)

ReadVarInt(v, index) == ReadVarIntFrom(v, index, 0, 0)

----------------------------------------------------------------------------
(* JavaScript values of the decoded Thrift tree and of the metadata object *)

JsUndefined == [t |-> "undefined"]
JsBoolean(b) == [t |-> "boolean", b |-> b]
JsNumber(n) == [t |-> "number", n |-> n]
JsBigInt(n) == [t |-> "bigint", n |-> n]
\* a float64, kept as its eight bytes
JsDouble(bytes) == [t |-> "double", bytes |-> bytes]
\* a string, kept as its code units
JsString(units) == [t |-> "string", s |-> units]
JsArray(items) == [t |-> "array", items |-> items]
\* an object: a function from its keys to their values
JsObject(fields) == [t |-> "object", fields |-> fields]
EmptyObject == JsObject([k \in {} |-> JsUndefined])

\* obj[key] = val
SetKey(obj, key, val) ==
    JsObject([k \in DOMAIN obj.fields \cup {key} |->
                IF k = key THEN val ELSE obj.fields[k]])

\* obj.key, for obj not undefined: undefined when obj has no such property
Get(obj, key) ==
    IF obj.t = "object" /\ key \in DOMAIN obj.fields
    THEN obj.fields[key] ELSE JsUndefined

\* `field_${fid}`
FieldKey(fid) == "field_" \o ToString(fid)

\* the conversion of a value to a boolean in &&
Truthy(v) ==
    CASE v.t = "undefined" -> FALSE
      [] v.t = "boolean" -> v.b
      [] v.t = "number" -> v.n # 0
      [] v.t = "bigint" -> v.n # 0
      [] v.t = "string" -> v.s # <<>>
      [] OTHER -> TRUE

----------------------------------------------------------------------------
(* The Thrift compact protocol decoder (thrift.ts)                         *)

\* CompactType
CompactType ==
    [STOP |-> 0, TRUE |-> 1, FALSE |-> 2, BYTE |-> 3, I16 |-> 4, I32 |-> 5,
     I64 |-> 6, DOUBLE |-> 7, BINARY |-> 8, LIST |-> 9, SET |-> 10, MAP |-> 11,
     STRUCT |-> 12, UUID |-> 13]

\* a decoded element and the index after it
Decoded(val, index) == [ok |-> TRUE, value |-> val, index |-> index]

\* readVarBigInt(view, index); result |= (byte & 0x7f) << shift is computed
\* on unbounded integers
RECURSIVE ReadVarBigIntFrom(_, _, _, _)
ReadVarBigIntFrom(v, index, result, shift) ==
    IF ~InView(v, index, 1) THEN Thrown("RangeError")
    ELSE IF GetUint8(v, index) < 128
    THEN [ok |-> TRUE, index |-> index + 1,
          result |-> result + (GetUint8(v, index) % 128) * Pow2(shift)]
    ELSE ReadVarBigIntFrom(v, index + 1,
                           result + (GetUint8(v, index) % 128) * Pow2(shift),
                           shift + 7)

ReadVarBigInt(v, index) == ReadVarBigIntFrom(v, index, 0, 0)

\* (zigzag >>> 1) ^ -(zigzag & 1): x ^ 0 = x and x ^ -1 = -x - 1
ZigZagToInt(zigzag) ==
    IF And32(zigzag, 1) = 1 THEN (0 - Shr32(zigzag, 1)) - 1 ELSE Shr32(zigzag, 1)

\* readZigZag(view, index), given the outcome r of readVarInt
ZigZagOf(r) ==
    IF ~r.ok THEN r ELSE Decoded(ZigZagToInt(r.result), r.index)

ReadZigZag(v, index) == ZigZagOf(ReadVarInt(v, index))

\* readZigZagBigInt(view, index), given the outcome r of readVarBigInt:
\* (zigzag >> 1n) ^ -(zigzag & 1n)
ZigZagBigIntOf(r) ==
    IF ~r.ok THEN r
    ELSE Decoded(IF r.result % 2 = 1 THEN (0 - (r.result \div 2)) - 1
                 ELSE r.result \div 2, r.index)

ReadZigZagBigInt(v, index) == ZigZagBigIntOf(ReadVarBigInt(v, index))

\* readVarInt(reader), readZigZag(reader) and readZigZagBigInt(reader) of
\* thrift.js, called by delta.js and datapageV2.js: an unsigned LEB128
\* number, a zigzag number; the index returned is the new reader.offset
ReaderVarInt(v, off) == ReadVarInt(v, off)
ReaderZigZag(v, off) == ReadZigZag(v, off)
ReaderZigZagBigInt(v, off) == ReadZigZagBigInt(v, off)

\* Math.ceil(a / 8)
CeilDiv8(a) == (a + 7) \div 8

\* getCompactType(byte)
GetCompactType(byte) == And32(byte, 15)

\* a field header: [type, fid, newIndex, newLastFid]
FieldBegin(type, fid, index, lastFid) ==
    [ok |-> TRUE, type |-> type, fid |-> fid, index |-> index, lastFid |-> lastFid]

\* readFieldBegin for delta = 0, given the outcome z of readZigZag
FieldBeginWithId(type, z) ==
    IF ~z.ok THEN z
    ELSE FieldBegin(GetCompactType(type), z.value, z.index, z.value)

\* a bug: the id of a delta header is not kept as the last field id
FieldBeginOfStale(v, index, fid0, type) ==
    IF And32(type, 15) = CompactType.STOP
    THEN FieldBegin(0, 0, index, fid0)
    ELSE IF Sar32(type, 4) = 0
    THEN FieldBeginWithId(type, ReadZigZag(v, index))
    ELSE FieldBegin(GetCompactType(type), fid0 + Sar32(type, 4), index, fid0)

\* readFieldBegin after the read of the byte type
FieldBeginOf(v, index, lastFid, type) ==
    IF And32(type, 15) = CompactType.STOP
    THEN FieldBegin(0, 0, index, lastFid)
    ELSE IF Sar32(type, 4) = 0
    THEN FieldBeginWithId(type, ReadZigZag(v, index))
    ELSE FieldBegin(GetCompactType(type), lastFid + Sar32(type, 4), index,
                    lastFid + Sar32(type, 4))

\* readFieldBegin(view, index, lastFid)
ReadFieldBegin(v, index, lastFid) ==
    IF ~InView(v, index, 1) THEN Thrown("RangeError")
    ELSE FieldBeginOf(v, index + 1, lastFid, GetUint8(v, index))

\* a collection header: [type, size, newIndex]
CollectionBegin(type, size, index) ==
    [ok |-> TRUE, type |-> type, size |-> size, index |-> index]

\* readCollectionBegin for size = 15, given the outcome n of readVarInt
CollectionBeginWithSize(type, n) ==
    IF ~n.ok THEN n ELSE CollectionBegin(type, n.result, n.index)

\* readCollectionBegin after the read of the byte sizeType
CollectionBeginOf(v, index, sizeType) ==
    IF Sar32(sizeType, 4) = 15
    THEN CollectionBeginWithSize(GetCompactType(sizeType), ReadVarInt(v, index))
    ELSE CollectionBegin(GetCompactType(sizeType), Sar32(sizeType, 4), index)

\* readCollectionBegin(view, index)
ReadCollectionBegin(v, index) ==
    IF ~InView(v, index, 1) THEN Thrown("RangeError")
    ELSE CollectionBeginOf(v, index + 1, GetUint8(v, index))

\* byte.toString(16).padStart(2, '0'), as code units
HexUnit(d) == IF d < 10 THEN 48 + d ELSE 87 + d
HexByte(byte) == <<HexUnit(byte \div 16), HexUnit(byte % 16)>>

RECURSIVE HexBytes(_)
HexBytes(bytes) ==
    IF bytes = <<>> THEN <<>> ELSE HexByte(bytes[1]) \o HexBytes(Tail(bytes))

\* view.buffer.slice(start, end), for 0 <= start <= end <= byteLength
Slice(v, start, end) == SubSeq(v, start + 1, end)

\* view.getInt8(off), from the unsigned byte
Int8Of(byte) == IF byte >= 128 THEN byte - 256 ELSE byte

\* case I16, I32, given the outcome z of readZigZag
NumberOf(z) == IF ~z.ok THEN z ELSE Decoded(JsNumber(z.value), z.index)

\* case I64, given the outcome z of readZigZagBigInt
BigIntOf(z) == IF ~z.ok THEN z ELSE Decoded(JsBigInt(z.value), z.index)

\* case BINARY, given the outcome len of readVarInt: the Uint8Array over
\* [stringIndex, stringIndex + stringLength) and its decoding as text
BinaryOf(v, len) ==
    IF ~len.ok THEN len
    ELSE IF len.result < 0 \/ ~InView(v, len.index, len.result)
    THEN Thrown("RangeError")
    ELSE Decoded(JsString(Slice(v, len.index, len.index + len.result)),
                 len.index + len.result)

RECURSIVE ReadElement(_, _, _)
RECURSIVE ReadListElements(_, _, _, _, _)
RECURSIVE ReadStructFields(_, _, _, _)

\* the body of the for loop of case LIST, given the outcome e of readElement
ListElement(v, elemType, left, listValues, e) ==
    IF ~e.ok THEN e
    ELSE ReadListElements(v, elemType, e.index, left - 1,
                          Append(listValues, e.value))

\* the for loop of case LIST, with left elements to read
ReadListElements(v, elemType, index, left, listValues) ==
    IF left <= 0 THEN Decoded(JsArray(listValues), index)
    ELSE ListElement(v, elemType, left, listValues,
                     ReadElement(v, elemType, index))

\* case LIST, given the outcome c of readCollectionBegin
ListOf(v, c) ==
    IF ~c.ok THEN c ELSE ReadListElements(v, c.type, c.index, c.size, <<>>)

\* structValues[`field_${fid}`] = value, given the outcome e of readElement
StructValue(v, structValues, f, e) ==
    IF ~e.ok THEN e
    ELSE ReadStructFields(v, e.index, f.lastFid,
                          SetKey(structValues, FieldKey(f.fid), e.value))

\* the body of the while loop of case STRUCT, given the outcome f of
\* readFieldBegin
StructField(v, structValues, f) ==
    IF ~f.ok THEN f
    ELSE IF f.type = CompactType.STOP THEN Decoded(structValues, f.index)
    ELSE StructValue(v, structValues, f, ReadElement(v, f.type, f.index))

\* the while (true) loop of case STRUCT
ReadStructFields(v, index, structLastFid, structValues) ==
    StructField(v, structValues, ReadFieldBegin(v, index, structLastFid))

\* readElement(view, type, index): [value, newIndex]
ReadElement(v, type, index) ==
    CASE type = CompactType.TRUE -> Decoded(JsBoolean(TRUE), index)
      [] type = CompactType.FALSE -> Decoded(JsBoolean(FALSE), index)
      [] type = CompactType.BYTE ->
           IF ~InView(v, index, 1) THEN Thrown("RangeError")
           ELSE Decoded(JsNumber(Int8Of(GetUint8(v, index))), index + 1)
      [] type \in {CompactType.I16, CompactType.I32} ->
           NumberOf(ReadZigZag(v, index))
      [] type = CompactType.I64 -> BigIntOf(ReadZigZagBigInt(v, index))
      [] type = CompactType.DOUBLE ->
           IF ~InView(v, index, 8) THEN Thrown("RangeError")
           ELSE Decoded(JsDouble(Slice(v, index, index + 8)), index + 8)
      [] type = CompactType.BINARY -> BinaryOf(v, ReadVarInt(v, index))
      [] type = CompactType.LIST -> ListOf(v, ReadCollectionBegin(v, index))
      [] type = CompactType.STRUCT -> ReadStructFields(v, index, 0, EmptyObject)
      [] type = CompactType.UUID ->
           IF ~InView(v, index, 16) THEN Thrown("RangeError")
           ELSE Decoded(JsString(HexBytes(Slice(v, index, index + 16))), index + 16)
      [] OTHER -> Thrown("Unhandled type")

RECURSIVE DeserializeFields(_, _, _, _)

\* value[`field_${fid}`] = fieldValue, given the outcome e of readElement
TopValue(buffer, val, f, e) ==
    IF ~e.ok THEN e
    ELSE DeserializeFields(buffer, e.index, f.lastFid,
                           SetKey(val, FieldKey(f.fid), e.value))

\* the body of the while loop, given the outcome f of readFieldBegin
TopField(buffer, val, f) ==
    IF ~f.ok THEN f
    ELSE IF f.type = CompactType.STOP THEN Decoded(val, f.index)
    ELSE TopValue(buffer, val, f, ReadElement(buffer, f.type, f.index))

\* the while (byteLength < buffer.byteLength) loop
DeserializeFields(buffer, byteLength, lastFid, val) ==
    IF ~(byteLength < Len(buffer)) THEN Decoded(val, byteLength)
    ELSE TopField(buffer, val, ReadFieldBegin(buffer, byteLength, lastFid))

\* deserializeTCompactProtocol(buffer): { value, byteLength }
DeserializeTCompactProtocol(buffer) == DeserializeFields(buffer, 0, 0, EmptyObject)

----------------------------------------------------------------------------
(* deserializeTCompactProtocol, one step per call of readFieldBegin and of *)
(* readElement                                                             *)

\* the outcome f of readFieldBegin: byteLength = newIndex, lastFid = newLastFid,
\* then the break on STOP
ThFieldRead(f) ==
    IF ~f.ok
    THEN /\ thPc' = "error"
         /\ thError' = f.err
         /\ UNCHANGED <<thByteLength, thLastFid, thType, thFid>>
    ELSE /\ thByteLength' = f.index
         /\ thLastFid' = f.lastFid
         /\ thType' = f.type
         /\ thFid' = f.fid
         /\ thPc' = IF f.type = CompactType.STOP THEN "done" ELSE "element"
         /\ UNCHANGED thError

\* const [type, fid, newIndex, newLastFid] = readFieldBegin(view, byteLength, lastFid)
ThFieldBegin ==
    /\ thPc = "loop"
    /\ thByteLength < Len(thBuffer)
    /\ ThFieldRead(ReadFieldBegin(thBuffer, thByteLength, thLastFid))
    /\ UNCHANGED <<thBuffer, thValue>>
    /\ UNCHANGED <<asmVars, rleVars, mdVars, viVars, plVars, pgVars, rnVars,
                   dlVars, d2Vars, wkVars>>

\* the outcome e of readElement: value[`field_${fid}`] = fieldValue
ThElementRead(e) ==
    IF ~e.ok
    THEN /\ thPc' = "error"
         /\ thError' = e.err
         /\ UNCHANGED <<thByteLength, thValue>>
    ELSE /\ thByteLength' = e.index
         /\ thValue' = SetKey(thValue, FieldKey(thFid), e.value)
         /\ thPc' = "loop"
         /\ UNCHANGED thError

\* [fieldValue, byteLength] = readElement(view, type, byteLength)
ThElement ==
    /\ thPc = "element"
    /\ ThElementRead(ReadElement(thBuffer, thType, thByteLength))
    /\ UNCHANGED <<thBuffer, thLastFid, thType, thFid>>
    /\ UNCHANGED <<asmVars, rleVars, mdVars, viVars, plVars, pgVars, rnVars,
                   dlVars, d2Vars, wkVars>>

\* return { value, byteLength }, at the end of the buffer
ThReturn ==
    /\ thPc = "loop"
    /\ ~(thByteLength < Len(thBuffer))
    /\ thPc' = "done"
    /\ UNCHANGED <<thBuffer, thByteLength, thLastFid, thValue, thType, thFid, thError>>
    /\ UNCHANGED <<asmVars, rleVars, mdVars, viVars, plVars, pgVars, rnVars,
                   dlVars, d2Vars, wkVars>>

\* no call of deserializeTCompactProtocol in progress
ThIdle ==
    /\ thBuffer = <<>>
    /\ thByteLength = 0
    /\ thLastFid = 0
    /\ thValue = EmptyObject
    /\ thType = 0
    /\ thFid = 0
    /\ thPc = "idle"
    /\ thError = ""

----------------------------------------------------------------------------
(* toVarInt, readVarInt and readVarBigInt, one step per loop iteration     *)

\* A number n of [0, 2^64) as the three parts the 32-bit operators of
\* toVarInt tell apart: n = top * 2^32 + mid * 128 + low, low < 128,
\* mid < 2^25. (n & ~0x7f) and (n >>> 7) see only mid and low.
Wide(top, mid, low) == [top |-> top, mid |-> mid, low |-> low]

\* the number n for n < 2^31
WideOf(n) == Wide(0, n \div 128, n % 128)

\* the byte a Uint8Array keeps of the number w
ToUint8(w) == (w.mid % 2) * 128 + w.low

\* one iteration of the while (true) loop of toVarInt:
\* if ((n & ~0x7f) === 0) { varInt[idx++] = n; break }
\* else { varInt[idx++] = (n & 0x7f) | 0x80; n >>>= 7 }
ToVarIntStep ==
    /\ viPc = "encode"
    /\ IF viN.mid = 0
       THEN /\ varInt' = Append(varInt, viN)
            /\ viPc' = "encoded"
            /\ UNCHANGED viN
       ELSE /\ varInt' = Append(varInt, Wide(0, 1, viN.low))
            /\ viN' = WideOf(viN.mid)
            /\ UNCHANGED viPc
    /\ UNCHANGED <<viArg, viView, viIndex, viResult, viShift, viBig, viError>>
    /\ UNCHANGED <<asmVars, rleVars, mdVars, thVars, plVars, pgVars, rnVars,
                   dlVars, d2Vars, wkVars>>

\* the caller reads the numbers back: readVarInt(new DataView(
\* new Uint8Array(varInt).buffer), 0); let result = 0; let shift = 0
ViLoad ==
    /\ viPc = "encoded"
    /\ viView' = [k \in 1..Len(varInt) |-> ToUint8(varInt[k])]
    /\ viIndex' = 0
    /\ viResult' = 0
    /\ viShift' = 0
    /\ viPc' = "read"
    /\ UNCHANGED <<viArg, viN, varInt, viBig, viError>>
    /\ UNCHANGED <<asmVars, rleVars, mdVars, thVars, plVars, pgVars, rnVars,
                   dlVars, d2Vars, wkVars>>

\* one iteration of the while (true) loop of readVarInt
ReadVarIntStep ==
    /\ viPc = "read"
    /\ ~viBig
    /\ IF ~InView(viView, viIndex, 1)
       THEN /\ viPc' = "error"
            /\ viError' = "RangeError"
            /\ UNCHANGED <<viIndex, viResult, viShift>>
       ELSE /\ viIndex' = viIndex + 1
            /\ viResult' = Or32(viResult,
                                Shl32(And32(GetUint8(viView, viIndex), 127), viShift))
            /\ IF And32(GetUint8(viView, viIndex), 128) = 0
               THEN viPc' = "done" /\ UNCHANGED viShift
               ELSE viShift' = viShift + 7 /\ UNCHANGED viPc
            /\ UNCHANGED viError
    /\ UNCHANGED <<viArg, viN, varInt, viView, viBig>>
    /\ UNCHANGED <<asmVars, rleVars, mdVars, thVars, plVars, pgVars, rnVars,
                   dlVars, d2Vars, wkVars>>

\* one iteration of the while (true) loop of readVarBigInt; on bigints
\* result |= (byte & 0x7f) << shift adds the seven bits above those read
\* before, and 0n << shift is 0n
ReadVarBigIntStep ==
    /\ viPc = "read"
    /\ viBig
    /\ IF ~InView(viView, viIndex, 1)
       THEN /\ viPc' = "error"
            /\ viError' = "RangeError"
            /\ UNCHANGED <<viIndex, viResult, viShift>>
       ELSE /\ viIndex' = viIndex + 1
            /\ viResult' = IF GetUint8(viView, viIndex) % 128 = 0 THEN viResult
                           ELSE viResult
                                  + (GetUint8(viView, viIndex) % 128) * Pow2(viShift)
            /\ IF GetUint8(viView, viIndex) < 128
               THEN viPc' = "done" /\ UNCHANGED viShift
               ELSE viShift' = viShift + 7 /\ UNCHANGED viPc
            /\ UNCHANGED viError
    /\ UNCHANGED <<viArg, viN, varInt, viView, viBig>>
    /\ UNCHANGED <<asmVars, rleVars, mdVars, thVars, plVars, pgVars, rnVars,
                   dlVars, d2Vars, wkVars>>

\* no call of toVarInt or readVarInt in progress
ViIdle ==
    /\ viArg = WideOf(0)
    /\ viN = WideOf(0)
    /\ varInt = <<>>
    /\ viView = <<>>
    /\ viIndex = 0
    /\ viResult = 0
    /\ viShift = 0
    /\ viBig = FALSE
    /\ viPc = "idle"
    /\ viError = ""

----------------------------------------------------------------------------
(* readRleBitPackedHybrid and its runs (src/encoding.js)                   *)

\* a bug: the mask one bit too narrow
MaskForBitsNarrow(bits) ==
    LET one == Shl32(1, bits - 1)
    IN IF one = (0 - 2147483647) - 1 THEN 2147483647 ELSE one - 1

\* maskForBits(bits) = (1 << bits) - 1, as the 32-bit word the & operator sees
MaskForBits(bits) ==
    LET one == Shl32(1, bits)
    IN IF one = (0 - 2147483647) - 1 THEN 2147483647 ELSE one - 1

\* n copies of x
Repeat(x, n) == [k \in 1..n |-> x]

\* a bug: the repeated value always read as one byte
ReadRleOneByte(v, off, header, bitWidth) ==
    IF ~InView(v, off, 1) THEN Thrown("RangeError")
    ELSE [ok |-> TRUE, offset |-> off + 1,
          value |-> Repeat(GetUint8(v, off), Shr32(header, 1))]

\* readRle(reader, header, bitWidth)
ReadRle(v, off, header, bitWidth) ==
    LET count == Shr32(header, 1)
        w == Sar32(bitWidth + 7, 3)
    IN IF w = 1
       THEN IF ~InView(v, off, 1) THEN Thrown("RangeError")
            ELSE [ok |-> TRUE, offset |-> off + 1,
                  value |-> Repeat(GetUint8(v, off), count)]
       ELSE IF w = 2
       THEN IF ~InView(v, off, 2) THEN Thrown("RangeError")
            ELSE [ok |-> TRUE, offset |-> off + 2,
                  value |-> Repeat(GetUint16(v, off), count)]
       ELSE IF w = 4
       THEN IF ~InView(v, off, 4) THEN Thrown("RangeError")
            ELSE [ok |-> TRUE, offset |-> off + 4,
                  value |-> Repeat(GetUint32(v, off), count)]
       ELSE Thrown("parquet invalid rle width")

\* one iteration of the while (count) loop of readBitPacked; b holds its
\* locals, and b.err the error thrown, "" when none
BitPackedStep(v, bitWidth, mask, b) ==
    IF b.right > 8
    THEN [b EXCEPT !.right = @ - 8, !.left = @ - 8, !.data = Sar32(@, 8)]
    ELSE IF b.left - b.right < bitWidth
    THEN IF ~InView(v, b.offset, 1) THEN [b EXCEPT !.err = "RangeError"]
         ELSE [b EXCEPT !.data = Or32(@, Shl32(GetUint8(v, b.offset), b.left)),
                        !.offset = @ + 1, !.left = @ + 8]
    ELSE [b EXCEPT !.value = IF b.remaining > 0
                             THEN Append(@, And32(Sar32(b.data, b.right), mask))
                             ELSE @,
                   !.remaining = IF b.remaining > 0 THEN @ - 1 ELSE @,
                   !.count = @ - 1,
                   !.right = @ + bitWidth]

\* the loop has ended: count is 0, or an error was thrown
BitPackedEnded(b) == b.count = 0 \/ b.err # ""

\* return value, or the error thrown
BitPackedEnd(b) ==
    IF b.err # "" THEN Thrown(b.err)
    ELSE [ok |-> TRUE, offset |-> b.offset, value |-> b.value]

\* the while (count) loop of readBitPacked and its return
RECURSIVE BitPackedLoop(_, _, _, _)
BitPackedLoop(v, bitWidth, mask, b) ==
    IF BitPackedEnded(b) THEN BitPackedEnd(b)
    ELSE BitPackedLoop(v, bitWidth, mask, BitPackedStep(v, bitWidth, mask, b))

\* the locals of readBitPacked before its loop: count, the first byte read
\* as data when there is one, and the throw when there is none and the mask
\* is not zero
BitPackedBegin(v, off, header, remaining, mask) ==
    [count |-> Shl32(Sar32(header, 1), 3),
     data |-> IF off < Len(v) THEN GetUint8(v, off) ELSE 0,
     left |-> 8, right |-> 0,
     offset |-> IF off < Len(v) THEN off + 1 ELSE off,
     value |-> <<>>, remaining |-> remaining,
     err |-> IF off >= Len(v) /\ mask # 0
             THEN "parquet bitpack offset out of range" ELSE ""]

\* readBitPacked(reader, header, bitWidth, remaining)
ReadBitPacked(v, off, header, bitWidth, remaining) ==
    BitPackedLoop(v, bitWidth, MaskForBits(bitWidth),
                  BitPackedBegin(v, off, header, remaining, MaskForBits(bitWidth)))

\* if (!length) { length = view.getInt32(offset, true); offset += 4; ... }
\* const value = []; const startOffset = reader.offset
RleBegin ==
    /\ rlePc = "call"
    /\ IF length = 0
       THEN IF ~InView(view, offset, 4)
            THEN /\ rlePc' = "error"
                 /\ rleError' = "RangeError"
                 /\ UNCHANGED <<length, offset, startOffset>>
            ELSE /\ length' = GetInt32(view, offset)
                 /\ offset' = offset + 4
                 /\ IF length' < 0
                    THEN /\ rlePc' = "error"
                         /\ rleError' = "parquet invalid rle/bitpack length"
                         /\ UNCHANGED startOffset
                    ELSE /\ rlePc' = "loop"
                         /\ startOffset' = offset'
                         /\ UNCHANGED rleError
       ELSE /\ rlePc' = "loop"
            /\ startOffset' = offset
            /\ UNCHANGED <<length, offset, rleError>>
    /\ UNCHANGED <<view, width, numValues, value>>
    /\ UNCHANGED <<asmVars, mdVars, thVars, viVars, plVars, pgVars, rnVars,
                   dlVars, d2Vars, wkVars>>

\* offset - startOffset < length && value.length < numValues
RleMore == offset - startOffset < length /\ Len(value) < numValues

\* one run: the varint header, then an RLE or a bit-packed run
RleRun ==
    /\ rlePc = "loop"
    /\ RleMore
    /\ LET h == ReadVarInt(view, offset)
       IN IF ~h.ok
          THEN /\ rlePc' = "error"
               /\ rleError' = h.err
               /\ UNCHANGED <<offset, value>>
          ELSE LET run == IF And32(h.result, 1) = 0
                          THEN ReadRle(view, h.index, h.result, width)
                          ELSE ReadBitPacked(view, h.index, h.result, width,
                                             numValues - Len(value))
               IN IF ~run.ok
                  THEN /\ rlePc' = "error"
                       /\ rleError' = run.err
                       /\ UNCHANGED <<offset, value>>
                  ELSE /\ offset' = run.offset
                       /\ value' = value \o run.value
                       /\ UNCHANGED <<rlePc, rleError>>
    /\ UNCHANGED <<view, width, length, numValues, startOffset>>
    /\ UNCHANGED <<asmVars, mdVars, thVars, viVars, plVars, pgVars, rnVars,
                   dlVars, d2Vars, wkVars>>

\* return value
RleReturn ==
    /\ rlePc = "loop"
    /\ ~RleMore
    /\ rlePc' = "done"
    /\ UNCHANGED <<view, offset, width, length, numValues, value, startOffset,
                   rleError>>
    /\ UNCHANGED <<asmVars, mdVars, thVars, viVars, plVars, pgVars, rnVars,
                   dlVars, d2Vars, wkVars>>

\* the return or the throw of one run, given its outcome r
RunReturn(r) ==
    IF ~r.ok
    THEN /\ rnPc' = "error"
         /\ rnError' = r.err
         /\ UNCHANGED <<rnOffset, rnValue>>
    ELSE /\ rnPc' = "done"
         /\ rnOffset' = r.offset
         /\ rnValue' = r.value
         /\ UNCHANGED rnError

\* a call readRle(reader, header, bitWidth)
RunReadRle ==
    /\ rnPc = "call"
    /\ rnKind = "rle"
    /\ RunReturn(ReadRle(rnView, rnOffset, rnHeader, rnBitWidth))
    /\ UNCHANGED <<rnView, rnStart, rnHeader, rnBitWidth, rnRemaining, rnKind,
                   rnLocals>>
    /\ UNCHANGED <<asmVars, rleVars, mdVars, thVars, viVars, plVars, pgVars,
                   dlVars, d2Vars, wkVars>>

\* a call readBitPacked(reader, header, bitWidth, remaining), up to its loop
RunBitPackedBegin ==
    /\ rnPc = "call"
    /\ rnKind = "bitpacked"
    /\ rnLocals' = BitPackedBegin(rnView, rnOffset, rnHeader, rnRemaining,
                                  MaskForBits(rnBitWidth))
    /\ rnPc' = "loop"
    /\ UNCHANGED <<rnView, rnStart, rnOffset, rnHeader, rnBitWidth, rnRemaining,
                   rnKind, rnValue, rnError>>
    /\ UNCHANGED <<asmVars, rleVars, mdVars, thVars, viVars, plVars, pgVars,
                   dlVars, d2Vars, wkVars>>

\* one iteration of while (count)
RunBitPackedStep ==
    /\ rnPc = "loop"
    /\ ~BitPackedEnded(rnLocals)
    /\ rnLocals' = BitPackedStep(rnView, rnBitWidth, MaskForBits(rnBitWidth),
                                 rnLocals)
    /\ UNCHANGED <<rnView, rnStart, rnOffset, rnHeader, rnBitWidth, rnRemaining,
                   rnKind, rnValue, rnPc, rnError>>
    /\ UNCHANGED <<asmVars, rleVars, mdVars, thVars, viVars, plVars, pgVars,
                   dlVars, d2Vars, wkVars>>

\* return value, or the throw that ended the call
RunBitPackedReturn ==
    /\ rnPc = "loop"
    /\ BitPackedEnded(rnLocals)
    /\ RunReturn(BitPackedEnd(rnLocals))
    /\ UNCHANGED <<rnView, rnStart, rnHeader, rnBitWidth, rnRemaining, rnKind,
                   rnLocals>>
    /\ UNCHANGED <<asmVars, rleVars, mdVars, thVars, viVars, plVars, pgVars,
                   dlVars, d2Vars, wkVars>>

\* the locals of readBitPacked outside a call
NoLocals ==
    [count |-> 0, data |-> 0, left |-> 0, right |-> 0, offset |-> 0,
     value |-> <<>>, remaining |-> 0, err |-> ""]

\* no call of deltaBinaryUnpack of delta.js in progress
NoStream == [blockSize |-> 0, miniblockPerBlock |-> 0, first |-> 0, blocks |-> <<>>]

DlIdle ==
    /\ dlStream = NoStream
    /\ dlView = <<>>
    /\ dlOffset = 0
    /\ dlNValues = 0
    /\ dlOutput = <<>>
    /\ dlOutputIndex = 0
    /\ dlValue = 0
    /\ dlBlockSize = 0
    /\ dlMiniblockPerBlock = 0
    /\ dlMinDelta = 0
    /\ dlBitWidths = <<>>
    /\ dlI = 0
    /\ dlMiniblockCount = 0
    /\ dlBitpackPos = 0
    /\ dlBlocksRead = 0
    /\ dlPc = "idle"
    /\ dlError = ""

\* no call of deltaBinaryUnpack of datapageV2.js in progress
NoHead == [blockSize |-> 0, miniblockPerBlock |-> 0, count |-> 0]

D2Idle ==
    /\ d2Page = <<>>
    /\ d2NValues = 0
    /\ d2Values = <<>>
    /\ d2Offset = 0
    /\ d2Head = NoHead
    /\ d2Value = 0
    /\ d2ValueIndex = 0
    /\ d2MinDelta = 0
    /\ d2BitWidths = <<>>
    /\ d2I = 0
    /\ d2Data = 0
    /\ d2Stop = 0
    /\ d2Spin = 0
    /\ d2Pc = "idle"
    /\ d2Error = ""

MaxQueries == 2           \* most query messages sent to the worker
MaxChunks == 2            \* most calls of onChunk made by one query

\* the queries, named by the queryId the client gives them
QueryIds == 1..MaxQueries

\* no message received by the worker
WkIdle ==
    /\ wkData = [q \in QueryIds |-> [queryId |-> q, chunks |-> FALSE]]
    /\ wkPosted = <<>>
    /\ wkChunks = [q \in QueryIds |-> 0]
    /\ wkPc = [q \in QueryIds |-> "idle"]

\* no run in progress
RnIdle ==
    /\ rnView = <<>>
    /\ rnStart = 0
    /\ rnOffset = 0
    /\ rnHeader = 0
    /\ rnBitWidth = 0
    /\ rnRemaining = 0
    /\ rnKind = ""
    /\ rnValue = <<>>
    /\ rnLocals = NoLocals
    /\ rnPc = "idle"
    /\ rnError = ""

\* no call of readRleBitPackedHybrid in progress
RleIdle ==
    /\ view = <<>>
    /\ offset = 0
    /\ width = 0
    /\ length = 0
    /\ numValues = 0
    /\ value = <<>>
    /\ startOffset = 0
    /\ rlePc = "idle"
    /\ rleError = ""

\* no call of parquetMetadata in progress
MdIdle ==
    /\ arrayBuffer = <<>>
    /\ mdPc = "idle"
    /\ mdError = ""
    /\ metadataLength = -1
    /\ metadataBuffer = <<>>
    /\ metadata = JsUndefined
    /\ mdResult = JsUndefined
    /\ thriftCalls = 0

----------------------------------------------------------------------------
(* readPlain (src/encoding.js). The reader is a view over its whole        *)
(* buffer; an outcome carries reader.offset as the call leaves it.         *)

ThrownAt(msg, off) == [ok |-> FALSE, err |-> msg, offset |-> off]
Plain(val, off) == [ok |-> TRUE, value |-> val, offset |-> off]

JsUint8Array(bytes) == [t |-> "Uint8Array", bytes |-> bytes]
\* a float32, kept as its four bytes
JsFloat(bytes) == [t |-> "float", bytes |-> bytes]
\* a bigint of up to 96 bits, kept as the WideBytes bytes of its two's
\* complement, little-endian
WideBytes == 13
JsWideBigInt(bytes) == [t |-> "bigint", le |-> bytes]

\* the signed number of the little-endian bytes, as a wide bigint
SignExtend(bytes) ==
    bytes \o Repeat(IF bytes[Len(bytes)] >= 128 THEN 255 ELSE 0,
                    WideBytes - Len(bytes))

\* x << BigInt(8 * n) and x | y on wide bigints
WideShl(x, n) == Repeat(0, n) \o SubSeq(x, 1, WideBytes - n)
WideOr(x, y) == [k \in 1..WideBytes |-> BitOrNat(x[k], y[k])]

\* (byte & (1 << bitOffset)) !== 0
BitSet(byte, bitOffset) == (byte \div Pow2(bitOffset)) % 2 = 1

\* readPlainBoolean(reader, count)
ReadPlainBoolean(v, off, count) ==
    IF ~InView(v, off, (count + 7) \div 8) THEN ThrownAt("RangeError", off)
    ELSE Plain(JsArray([k \in 1..count |->
                          JsBoolean(BitSet(GetUint8(v, off + (k - 1) \div 8),
                                           (k - 1) % 8))]),
               off + (count + 7) \div 8)

\* the bytes of one value of readPlainInt32, Int64, Int96, Float, Double
PlainSize(type) ==
    CASE type = "INT32" -> 4
      [] type = "INT64" -> 8
      [] type = "INT96" -> 12
      [] type = "FLOAT" -> 4
      [] type = "DOUBLE" -> 8

\* the value these functions push for the bytes at at:
\* getInt32, getBigInt64, (BigInt(high) << BigInt(32)) | low, getFloat32,
\* getFloat64
PlainItem(type, v, at) ==
    CASE type = "INT32" -> JsNumber(GetInt32(v, at))
      [] type = "INT64" -> JsWideBigInt(SignExtend(Slice(v, at, at + 8)))
      [] type = "INT96" ->
           JsWideBigInt(WideOr(WideShl(SignExtend(Slice(v, at + 8, at + 12)), 4),
                               SignExtend(Slice(v, at, at + 8))))
      [] type = "FLOAT" -> JsFloat(Slice(v, at, at + 4))
      [] type = "DOUBLE" -> JsDouble(Slice(v, at, at + 8))

\* the for loop of readPlainInt32, Int64, Int96, Float, Double from i on,
\* then reader.offset += count * size
RECURSIVE ReadPlainItems(_, _, _, _, _, _)
ReadPlainItems(v, off, type, count, k, items) ==
    IF k >= count THEN Plain(JsArray(items), off + count * PlainSize(type))
    ELSE IF ~InView(v, off + k * PlainSize(type), PlainSize(type))
    THEN ThrownAt("RangeError", off)
    ELSE ReadPlainItems(v, off, type, count, k + 1,
                        Append(items, PlainItem(type, v, off + k * PlainSize(type))))

\* decoder.decode(bytes), for bytes that are ASCII or not part of any
\* well-formed sequence (U+FFFD)
Utf8Decode(bytes) ==
    JsString([k \in 1..Len(bytes) |-> IF bytes[k] < 128 THEN bytes[k] ELSE 65533])

RECURSIVE ReadPlainByteArray(_, _, _, _, _, _, _)

\* one iteration of the loop of readPlainByteArray, given the length read.
\* rest holds the bytes of reader.view.buffer that follow the view: new
\* Uint8Array(buffer, byteOffset, length) is checked against the buffer, not
\* against the view
ByteArrayItem(v, rest, off, count, k, items, utf8, len) ==
    IF len < 0 \/ off + 4 + len > Len(v) + Len(rest)
    THEN ThrownAt("RangeError", off + 4)
    ELSE ReadPlainByteArray(v, rest, off + 4 + len, count, k + 1,
            Append(items,
                   IF utf8 THEN Utf8Decode(Slice(v \o rest, off + 4, off + 4 + len))
                   ELSE JsUint8Array(Slice(v \o rest, off + 4, off + 4 + len))),
            utf8)

\* readPlainByteArray(reader, count) from i on, and the map of case
\* BYTE_ARRAY
ReadPlainByteArray(v, rest, off, count, k, items, utf8) ==
    IF k >= count THEN Plain(JsArray(items), off)
    ELSE IF ~InView(v, off, 4) THEN ThrownAt("RangeError", off)
    ELSE ByteArrayItem(v, rest, off, count, k, items, utf8, GetInt32(v, off))

\* readPlainByteArrayFixed(reader, fixedLength)
ReadPlainByteArrayFixed(v, rest, off, fixedLength) ==
    IF fixedLength < 0 \/ off + fixedLength > Len(v) + Len(rest)
    THEN ThrownAt("RangeError", off + fixedLength)
    ELSE Plain(JsUint8Array(Slice(v \o rest, off, off + fixedLength)),
               off + fixedLength)

\* readPlain(reader, type, count, utf8), for a view followed by the bytes
\* rest in its buffer
ReadPlainIn(v, rest, off, type, count, utf8) ==
    IF count = 0 THEN Plain(JsArray(<<>>), off)
    ELSE CASE type = "BOOLEAN" -> ReadPlainBoolean(v, off, count)
           [] type \in {"INT32", "INT64", "INT96", "FLOAT", "DOUBLE"} ->
                ReadPlainItems(v, off, type, count, 0, <<>>)
           [] type = "BYTE_ARRAY" ->
                ReadPlainByteArray(v, rest, off, count, 0, <<>>, utf8)
           [] type = "FIXED_LEN_BYTE_ARRAY" ->
                ReadPlainByteArrayFixed(v, rest, off, count)
           [] OTHER -> ThrownAt("parquet unhandled type", off)

\* readPlain(reader, type, count, utf8), for a view that ends where its
\* buffer ends
ReadPlain(v, off, type, count, utf8) == ReadPlainIn(v, <<>>, off, type, count, utf8)


\* the outcome r of the call
PlainReturn(r) ==
    /\ plOffset' = r.offset
    /\ IF r.ok
       THEN plResult' = r.value /\ plPc' = "done" /\ UNCHANGED plError
       ELSE plError' = r.err /\ plPc' = "error" /\ UNCHANGED plResult

\* a call readPlain(reader, type, count, utf8)
PlainRead ==
    /\ plPc = "call"
    /\ PlainReturn(ReadPlainIn(plView, plRest, plOffset, plType, plCount, plUtf8))
    /\ UNCHANGED <<plView, plRest, plStart, plType, plCount, plUtf8, plTypeLength>>
    /\ UNCHANGED <<asmVars, rleVars, mdVars, thVars, viVars, pgVars, rnVars,
                   dlVars, d2Vars, wkVars>>

\* no call of readPlain in progress
PlIdle ==
    /\ plView = <<>>
    /\ plRest = <<>>
    /\ plOffset = 0
    /\ plStart = 0
    /\ plType = ""
    /\ plCount = 0
    /\ plUtf8 = FALSE
    /\ plTypeLength = 0
    /\ plResult = JsUndefined
    /\ plPc = "idle"
    /\ plError = ""

----------------------------------------------------------------------------
(* readRleBitPackedHybrid and readData as functions of the reader          *)
(* (src/encoding.js), for the page readers                                 *)

\* widthFromMaxInt(value) = Math.ceil(Math.log2(value + 1))
WidthFromMaxInt(val) ==
    CHOOSE w \in 0..30 : Pow2(w) >= val + 1 /\ (w = 0 \/ Pow2(w - 1) < val + 1)

RECURSIVE HybridRuns(_, _, _, _, _, _, _)

\* concat(value, rle) / concat(value, bitPacked), given the outcome run of
\* readRle or readBitPacked
HybridRunRead(v, off, startOff, w, len, n, items, run) ==
    IF ~run.ok THEN ThrownAt(run.err, off)
    ELSE HybridRuns(v, run.offset, startOff, w, len, n, items \o run.value)

\* one iteration of the while loop, given the outcome h of readVarInt
HybridRun(v, off, startOff, w, len, n, items, h) ==
    IF ~h.ok THEN ThrownAt(h.err, off)
    ELSE HybridRunRead(v, h.index, startOff, w, len, n, items,
           IF And32(h.result, 1) = 0
           THEN ReadRle(v, h.index, h.result, w)
           ELSE ReadBitPacked(v, h.index, h.result, w, n - Len(items)))

\* while (reader.offset - startOffset < length && value.length < numValues)
HybridRuns(v, off, startOff, w, len, n, items) ==
    IF off - startOff < len /\ Len(items) < n
    THEN HybridRun(v, off, startOff, w, len, n, items, ReadVarInt(v, off))
    ELSE Plain(items, off)

\* readRleBitPackedHybrid(reader, width, length, numValues)
ReadRleBitPackedHybrid(v, off, w, len, n) ==
    IF len # 0 THEN HybridRuns(v, off, off, w, len, n, <<>>)
    ELSE IF ~InView(v, off, 4) THEN ThrownAt("RangeError", off)
    ELSE IF GetInt32(v, off) < 0
    THEN ThrownAt("parquet invalid rle/bitpack length", off + 4)
    ELSE HybridRuns(v, off + 4, off + 4, w, GetInt32(v, off), n, <<>>)

\* numValues when the caller passes new Array(n) for it: the array is
\* converted to a number for value.length < numValues, "" to 0 for n <= 1
\* and ",", ",,", ... to NaN. NaN is kept as -1: value.length < NaN and
\* value.length < -1 are both false, and numValues is not used otherwise
\* before the loop is entered.
ArrayAsNumValues(n) == IF n <= 1 THEN 0 ELSE -1

RECURSIVE ReadDataLoop(_, _, _, _, _, _)

\* if (!rle.length) break; concat(value, rle); seen += rle.length
ReadDataRle(v, count, bitWidth, seen, items, rle) ==
    IF ~rle.ok THEN rle
    ELSE IF rle.value = <<>> THEN Plain(items, rle.offset)
    ELSE ReadDataLoop(v, rle.offset, count, bitWidth, seen + Len(rle.value),
                      items \o rle.value)

\* while (seen < count)
ReadDataLoop(v, off, count, bitWidth, seen, items) ==
    IF seen < count
    THEN ReadDataRle(v, count, bitWidth, seen, items,
                     ReadRleBitPackedHybrid(v, off, bitWidth, 0, count))
    ELSE Plain(items, off)

\* readData(reader, encoding, count, bitWidth)
ReadData(v, off, encoding, count, bitWidth) ==
    IF encoding = "RLE" THEN ReadDataLoop(v, off, count, bitWidth, 0, <<>>)
    ELSE ThrownAt("parquet encoding not supported", off)

----------------------------------------------------------------------------
(* readDataPage (src/datapage.js). Levels are arrays of integers.          *)

\* readRepetitionLevels(reader, daph, schema, columnMetadata)
ReadRepetitionLevels(v, off, daph, col) ==
    IF col.path_length > 1 /\ col.maxRepetitionLevel # 0
    THEN ReadData(v, off, daph.repetition_level_encoding, daph.num_values,
                  WidthFromMaxInt(col.maxRepetitionLevel))
    ELSE Plain(<<>>, off)

\* the count of nulls, given the outcome d of readData
DefinitionLevelsOf(daph, col, d) ==
    IF ~d.ok THEN d
    ELSE [ok |-> TRUE, offset |-> d.offset,
          numNulls |-> daph.num_values - CountEq(d.value, col.maxDefinitionLevel),
          value |-> IF daph.num_values = CountEq(d.value, col.maxDefinitionLevel)
                    THEN <<>> ELSE d.value]

\* readDefinitionLevels(reader, daph, schema, path_in_schema)
ReadDefinitionLevels(v, off, daph, col) ==
    IF ~col.required /\ WidthFromMaxInt(col.maxDefinitionLevel) # 0
    THEN DefinitionLevelsOf(daph, col,
           ReadData(v, off, daph.definition_level_encoding, daph.num_values,
                    WidthFromMaxInt(col.maxDefinitionLevel)))
    ELSE [ok |-> TRUE, offset |-> off, numNulls |-> 0, value |-> <<>>]

\* Array.isArray(plainObj) ? plainObj : Array.from(plainObj)
ArrayFrom(obj) ==
    IF obj.t = "array" THEN obj
    ELSE JsArray([k \in 1..Len(obj.bytes) |-> JsNumber(obj.bytes[k])])

\* values = ..., given the outcome r of readPlain
PlainValues(r) == IF ~r.ok THEN r ELSE Plain(ArrayFrom(r.value), r.offset)

\* values = ..., given the outcome r of readRleBitPackedHybrid
HybridValues(r) ==
    IF ~r.ok THEN r
    ELSE Plain(JsArray([k \in 1..Len(r.value) |-> JsNumber(r.value[k])]), r.offset)

\* if (bitWidth) { readRleBitPackedHybrid(reader, bitWidth,
\* view.byteLength - reader.offset, nValues) } else { nval zeros }
ReadIndices(v, off, bitWidth, nValues) ==
    IF bitWidth # 0
    THEN HybridValues(ReadRleBitPackedHybrid(v, off, bitWidth, Len(v) - off, nValues))
    ELSE Plain(JsArray(Repeat(JsNumber(0), nValues)), off)

\* a reader of the values that takes the two delta byte-array encodings for
\* PLAIN
ReadPageValuesDelta(v, off, daph, col, nValues) ==
    IF daph.encoding \in {"PLAIN", "DELTA_LENGTH_BYTE_ARRAY", "DELTA_BYTE_ARRAY"}
    THEN PlainValues(ReadPlain(v, off, col.type, nValues, col.utf8))
    ELSE ThrownAt("parquet unsupported encoding", off)

\* read values based on encoding
ReadPageValues(v, off, daph, col, nValues) ==
    IF daph.encoding = "PLAIN"
    THEN PlainValues(ReadPlain(v, off, col.type, nValues, col.utf8))
    ELSE IF daph.encoding \in {"PLAIN_DICTIONARY", "RLE_DICTIONARY", "RLE"}
    THEN IF col.type = "BOOLEAN" THEN ReadIndices(v, off, 1, nValues)
         ELSE IF ~InView(v, off, 1) THEN ThrownAt("RangeError", off)
         ELSE ReadIndices(v, off + 1, GetUint8(v, off), nValues)
    ELSE ThrownAt("parquet unsupported encoding", off)

\* a step of a page reader ends in the error err
PgThrow(err) ==
    /\ pgPc' = "error"
    /\ pgError' = err

\* const repetitionLevels = readRepetitionLevels(...), given its outcome r
PgRepetitionLevelsRead(r) ==
    IF ~r.ok
    THEN PgThrow(r.err) /\ UNCHANGED <<pgOffset, pgRepetitionLevels>>
    ELSE /\ pgRepetitionLevels' = JsArray(r.value)
         /\ pgOffset' = r.offset
         /\ pgPc' = "definition"
         /\ UNCHANGED pgError

PgReadRepetitionLevels ==
    /\ pgVersion = 1
    /\ pgPc = "repetition"
    /\ PgRepetitionLevelsRead(ReadRepetitionLevels(pgBytes, pgOffset, pgHeader, pgColumn))
    /\ UNCHANGED <<pgVersion, pgBytes, pgHeader, pgColumn, pgCompressors,
                   pgDefinitionLevels, pgNumNulls, pgValues, pgDecompressed>>
    /\ UNCHANGED <<asmVars, rleVars, mdVars, thVars, viVars, plVars, rnVars,
                   dlVars, d2Vars, wkVars>>

\* const dl = readDefinitionLevels(...); definitionLevels = dl.definitionLevels;
\* numNulls = dl.numNulls, given its outcome d (skipNulls is false)
PgDefinitionLevelsRead(d) ==
    IF ~d.ok
    THEN PgThrow(d.err) /\ UNCHANGED <<pgOffset, pgDefinitionLevels, pgNumNulls>>
    ELSE /\ pgDefinitionLevels' = JsArray(d.value)
         /\ pgNumNulls' = d.numNulls
         /\ pgOffset' = d.offset
         /\ pgPc' = "values"
         /\ UNCHANGED pgError

PgReadDefinitionLevels ==
    /\ pgVersion = 1
    /\ pgPc = "definition"
    /\ PgDefinitionLevelsRead(ReadDefinitionLevels(pgBytes, pgOffset, pgHeader, pgColumn))
    /\ UNCHANGED <<pgVersion, pgBytes, pgHeader, pgColumn, pgCompressors,
                   pgRepetitionLevels, pgValues, pgDecompressed>>
    /\ UNCHANGED <<asmVars, rleVars, mdVars, thVars, viVars, plVars, rnVars,
                   dlVars, d2Vars, wkVars>>

\* values = ...; return { definitionLevels, repetitionLevels, value: values },
\* given the outcome r of the read of the values
PgValuesRead(r) ==
    IF ~r.ok
    THEN PgThrow(r.err) /\ UNCHANGED <<pgOffset, pgValues>>
    ELSE /\ pgValues' = r.value
         /\ pgOffset' = r.offset
         /\ pgPc' = "done"
         /\ UNCHANGED pgError

PgReadValues ==
    /\ pgVersion = 1
    /\ pgPc = "values"
    /\ PgValuesRead(ReadPageValues(pgBytes, pgOffset, pgHeader, pgColumn,
                                   pgHeader.num_values - pgNumNulls))
    /\ UNCHANGED <<pgVersion, pgBytes, pgHeader, pgColumn, pgCompressors,
                   pgRepetitionLevels, pgDefinitionLevels, pgNumNulls,
                   pgDecompressed>>
    /\ UNCHANGED <<asmVars, rleVars, mdVars, thVars, viVars, plVars, rnVars,
                   dlVars, d2Vars, wkVars>>

----------------------------------------------------------------------------
(* readDataPageV2 (src/datapageV2.js)                                      *)

\* new Array(n): n empty slots
NewArray(n) == JsArray(Repeat([t |-> "empty"], n))

\* the decompressor a caller registers for a codec: it drops the one-byte
\* header its compressor wrote
Uncompress(bytes) == IF bytes = <<>> THEN <<>> ELSE Tail(bytes)

\* decompressPage(compressedBytes, uncompressedPageSize, codec, compressors):
\* UNCOMPRESSED never dispatches; a codec missing from the table and a
\* result of the wrong length are errors
DecompressPage(bytes, size, codec, compressors) ==
    IF codec = "UNCOMPRESSED" THEN [ok |-> TRUE, value |-> bytes]
    ELSE IF codec \notin compressors
    THEN Thrown("parquet unsupported compression codec")
    ELSE IF Len(Uncompress(bytes)) # size
    THEN Thrown("parquet decompression size mismatch")
    ELSE [ok |-> TRUE, value |-> Uncompress(bytes)]

\* the array of num_values empty slots the level readers return, given the
\* outcome r of readRleBitPackedHybrid
LevelsV2(daph2, r) ==
    IF ~r.ok THEN r ELSE Plain(NewArray(daph2.num_values), r.offset)

\* readRepetitionLevelsV2(reader, daph2, schemaPath)
ReadRepetitionLevelsV2(v, off, daph2, col) ==
    IF col.maxRepetitionLevel = 0 THEN Plain(JsArray(<<>>), off)
    ELSE LevelsV2(daph2,
           ReadRleBitPackedHybrid(v, off, WidthFromMaxInt(col.maxRepetitionLevel),
                                  daph2.repetition_levels_byte_length,
                                  ArrayAsNumValues(daph2.num_values)))

\* readDefinitionLevelsV2(reader, daph2, maxDefinitionLevel)
ReadDefinitionLevelsV2(v, off, daph2, col) ==
    IF col.maxDefinitionLevel # 0
    THEN LevelsV2(daph2,
           ReadRleBitPackedHybrid(v, off, WidthFromMaxInt(col.maxDefinitionLevel),
                                  daph2.definition_levels_byte_length,
                                  ArrayAsNumValues(daph2.num_values)))
    ELSE Plain(JsUndefined, off)

\* ph.uncompressed_page_size - daph2.definition_levels_byte_length
\*   - daph2.repetition_levels_byte_length
UncompressedPageSize(daph2) ==
    (daph2.uncompressed_page_size - daph2.definition_levels_byte_length)
      - daph2.repetition_levels_byte_length

\* the calls of decompressPage readDataPageV2 makes after the levels, with
\* reader.offset = off
DecompressCalls(bytes, off, daph2, col) ==
    CASE daph2.encoding = "PLAIN" ->
           IF daph2.is_compressed /\ col.codec # "UNCOMPRESSED"
           THEN <<[bytes |-> Slice(bytes, off, Len(bytes)), codec |-> col.codec]>>
           ELSE <<>>
      [] daph2.encoding = "RLE" -> <<[bytes |-> bytes, codec |-> col.codec]>>
      [] daph2.encoding \in {"PLAIN_DICTIONARY", "RLE_DICTIONARY"} ->
           <<[bytes |-> Slice(bytes, off, Len(bytes)), codec |-> col.codec]>>
      [] daph2.encoding = "DELTA_BINARY_PACKED" ->
           IF daph2.num_nulls # 0 THEN <<>>
           ELSE <<[bytes |-> bytes,
                   codec |-> IF daph2.is_compressed THEN col.codec
                             ELSE "UNCOMPRESSED"]>>
      [] OTHER -> <<>>

\* dataPage = readPlain(pageReader, columnMetadata.type, nValues, utf8),
\* given the page
PlainV2(daph2, col, page) ==
    IF ~page.ok THEN page
    ELSE ReadPlain(page.value, 0, col.type, daph2.num_values - daph2.num_nulls,
                   col.utf8)

\* dataPage = new Array(nValues); readRleBitPackedHybrid(pageReader, bitWidth,
\* uncompressedPageSize, dataPage), given the outcome r of the call
FilledV2(daph2, r) ==
    IF ~r.ok THEN r
    ELSE [ok |-> TRUE, value |-> NewArray(daph2.num_values - daph2.num_nulls)]

\* encoding RLE, given the page
RleV2(daph2, page) ==
    IF ~page.ok THEN page
    ELSE IF daph2.num_nulls # 0
    THEN Thrown("parquet RLE encoding with nulls not supported")
    ELSE FilledV2(daph2,
           ReadRleBitPackedHybrid(page.value, 4, 1, UncompressedPageSize(daph2),
               ArrayAsNumValues(daph2.num_values - daph2.num_nulls)))

\* encodings PLAIN_DICTIONARY and RLE_DICTIONARY, given the page
DictionaryV2(daph2, page) ==
    IF ~page.ok THEN page
    ELSE IF page.value = <<>> THEN Thrown("RangeError")
    ELSE FilledV2(daph2,
           ReadRleBitPackedHybrid(page.value, 1, GetUint8(page.value, 0),
               UncompressedPageSize(daph2),
               ArrayAsNumValues(daph2.num_values - daph2.num_nulls)))

\* encoding DELTA_BINARY_PACKED, given the page: deltaBinaryUnpack starts
\* with readVarInt(reader), which calls getUint8 on the reader object
\* a call that does not return
NoReturn == [ok |-> FALSE, err |-> "", returns |-> FALSE]
Returns(r) == r.ok \/ "returns" \notin DOMAIN r

\* the header of deltaBinaryUnpack of datapageV2.js
D2HeaderFirst(v, a, b, c) ==
    LET d == ReaderZigZag(v, c.index)
    IN IF ~d.ok THEN d
       ELSE [ok |-> TRUE, blockSize |-> a.result, miniblockPerBlock |-> b.result,
             count |-> c.result, value |-> d.value, offset |-> d.index]

D2HeaderCount(v, a, b) ==
    LET c == ReaderVarInt(v, b.index)
    IN IF ~c.ok THEN c ELSE D2HeaderFirst(v, a, b, c)

D2HeaderMiniblocks(v, a) ==
    LET b == ReaderVarInt(v, a.index)
    IN IF ~b.ok THEN b ELSE D2HeaderCount(v, a, b)

D2Header(v) ==
    LET a == ReaderVarInt(v, 0)
    IN IF ~a.ok THEN a ELSE D2HeaderMiniblocks(v, a)

\* page[k] stored in a Uint8Array: 0 for an index outside the page
PageByte(v, k) == IF k < Len(v) THEN v[k + 1] ELSE 0

\* minDelta and the bit widths of a block
D2BlockHead(v, off, miniblockPerBlock) ==
    LET m == ReaderZigZag(v, off)
    IN IF ~m.ok THEN m
       ELSE [ok |-> TRUE, minDelta |-> m.value,
             bitWidths |-> [k \in 1..miniblockPerBlock |->
                              PageByte(v, m.index + k - 1)],
             offset |-> m.index + miniblockPerBlock]

\* how often `for (j = 0; j < valuesPerMiniblock && ...)` can run: the
\* quotient blockSize / miniblockPerBlock rounded up
D2ValuesPerMiniblock(h) ==
    (h.blockSize + h.miniblockPerBlock - 1) \div h.miniblockPerBlock

\* the values a miniblock of bit width zero writes from val on
D2ZeroWidth(val, minDelta, n) == [j \in 1..n |-> val + (j - 1) * minDelta]

\* a miniblock of a bit width that is not zero, when count > 1: the loop
\* `while (count)` reads bytes until stop >= 0 and then pushes values for
\* ever, count and stop never changing
D2PackedMiniblock(v, off, bitWidth) ==
    IF InView(v, off, CeilDiv8(bitWidth)) THEN NoReturn ELSE Thrown("RangeError")

RECURSIVE D2Blocks(_, _, _, _, _, _)
RECURSIVE D2Miniblocks(_, _, _, _, _, _, _, _)

\* the miniblocks of block b from miniblock k on
D2Miniblocks(v, off, h, n, vals, val, b, k) ==
    IF k >= h.miniblockPerBlock THEN D2Blocks(v, off, h, n, vals, val)
    ELSE IF b.bitWidths[k + 1] # 0
    THEN IF h.count > 1 THEN D2PackedMiniblock(v, off, b.bitWidths[k + 1])
         ELSE D2Miniblocks(v, off, h, n, vals, val, b, k + 1)
    ELSE D2Miniblocks(v, off, h, n,
            vals \o D2ZeroWidth(val, b.minDelta,
                                Min(D2ValuesPerMiniblock(h), n - Len(vals))),
            val + Min(D2ValuesPerMiniblock(h), n - Len(vals)) * b.minDelta,
            b, k + 1)

D2BlockRead(v, h, n, vals, val, b) ==
    IF ~b.ok THEN b ELSE D2Miniblocks(v, b.offset, h, n, vals, val, b, 0)

\* `for (let valueIndex = 0; valueIndex < nValues;)`
D2Blocks(v, off, h, n, vals, val) ==
    IF Len(vals) >= n THEN [ok |-> TRUE, value |-> vals]
    ELSE D2BlockRead(v, h, n, vals, val, D2BlockHead(v, off, h.miniblockPerBlock))

D2HeaderRead(v, n, h) ==
    IF ~h.ok THEN h ELSE D2Blocks(v, h.offset, h, n, <<>>, h.value)

\* deltaBinaryUnpack(page, nValues, values) of datapageV2.js
DeltaBinaryUnpackV2(v, n) == D2HeaderRead(v, n, D2Header(v))

\* dataPage after deltaBinaryUnpack(page, nValues, dataPage)
DeltaValuesV2(r) ==
    IF ~r.ok THEN r
    ELSE [ok |-> TRUE,
          value |-> JsArray([k \in 1..Len(r.value) |-> JsNumber(r.value[k])])]

DeltaV2(daph2, page) ==
    IF ~page.ok THEN page
    ELSE DeltaValuesV2(DeltaBinaryUnpackV2(page.value,
                                           daph2.num_values - daph2.num_nulls))

\* read values based on encoding
ReadPageValuesV2(bytes, off, daph2, col, compressors) ==
    CASE daph2.encoding = "PLAIN" ->
           PlainV2(daph2, col,
             IF daph2.is_compressed /\ col.codec # "UNCOMPRESSED"
             THEN DecompressPage(Slice(bytes, off, Len(bytes)),
                                 UncompressedPageSize(daph2), col.codec, compressors)
             ELSE [ok |-> TRUE, value |-> Slice(bytes, off, Len(bytes))])
      [] daph2.encoding = "RLE" ->
           RleV2(daph2, DecompressPage(bytes, UncompressedPageSize(daph2),
                                       col.codec, compressors))
      [] daph2.encoding \in {"PLAIN_DICTIONARY", "RLE_DICTIONARY"} ->
           DictionaryV2(daph2,
             DecompressPage(Slice(bytes, off, Len(bytes)),
                            UncompressedPageSize(daph2), col.codec, compressors))
      [] daph2.encoding = "DELTA_BINARY_PACKED" ->
           IF daph2.num_nulls # 0 THEN Thrown("parquet delta-int not supported")
           ELSE DeltaV2(daph2,
                        DecompressPage(bytes, UncompressedPageSize(daph2),
                          IF daph2.is_compressed THEN col.codec ELSE "UNCOMPRESSED",
                          compressors))
      [] OTHER -> Thrown("parquet unsupported encoding")

\* the levels r, taken without the check of reader.offset
PgLevelsReadV2Unchecked(r, expected, msg, next) ==
    IF ~r.ok
    THEN PgThrow(r.err) /\ UNCHANGED pgOffset
    ELSE /\ pgOffset' = r.offset
         /\ pgPc' = next
         /\ UNCHANGED pgError

\* the levels r, then the check of reader.offset against the byte length
\* expected of the header
PgLevelsReadV2(r, expected, msg, next) ==
    IF ~r.ok
    THEN PgThrow(r.err) /\ UNCHANGED pgOffset
    ELSE /\ pgOffset' = r.offset
         /\ IF r.offset # expected
            THEN PgThrow(msg)
            ELSE pgPc' = next /\ UNCHANGED pgError

\* if (!daph2) throw ...; const repetitionLevels = readRepetitionLevelsV2(...);
\* if (reader.offset !== daph2.repetition_levels_byte_length) throw ...
PgReadRepetitionLevelsV2 ==
    /\ pgVersion = 2
    /\ pgPc = "repetition"
    /\ IF ~pgHeader.present
       THEN /\ PgThrow("parquet data page header v2 is undefined")
            /\ UNCHANGED <<pgOffset, pgRepetitionLevels>>
       ELSE /\ PgLevelsReadV2(
                 ReadRepetitionLevelsV2(pgBytes, pgOffset, pgHeader, pgColumn),
                 pgHeader.repetition_levels_byte_length,
                 "parquet repetition levels byte length", "definition")
            /\ pgRepetitionLevels' =
                 IF ReadRepetitionLevelsV2(pgBytes, pgOffset, pgHeader, pgColumn).ok
                 THEN ReadRepetitionLevelsV2(pgBytes, pgOffset, pgHeader, pgColumn).value
                 ELSE pgRepetitionLevels
    /\ UNCHANGED <<pgVersion, pgBytes, pgHeader, pgColumn, pgCompressors,
                   pgDefinitionLevels, pgNumNulls, pgValues, pgDecompressed>>
    /\ UNCHANGED <<asmVars, rleVars, mdVars, thVars, viVars, plVars, rnVars,
                   dlVars, d2Vars, wkVars>>

\* const definitionLevels = readDefinitionLevelsV2(...); if (reader.offset !==
\* daph2.repetition_levels_byte_length + daph2.definition_levels_byte_length)
\* throw ...
PgReadDefinitionLevelsV2 ==
    /\ pgVersion = 2
    /\ pgPc = "definition"
    /\ PgLevelsReadV2(
          ReadDefinitionLevelsV2(pgBytes, pgOffset, pgHeader, pgColumn),
          pgHeader.repetition_levels_byte_length
            + pgHeader.definition_levels_byte_length,
          "parquet definition levels byte length", "values")
    /\ pgDefinitionLevels' =
          IF ReadDefinitionLevelsV2(pgBytes, pgOffset, pgHeader, pgColumn).ok
          THEN ReadDefinitionLevelsV2(pgBytes, pgOffset, pgHeader, pgColumn).value
          ELSE pgDefinitionLevels
    /\ UNCHANGED <<pgVersion, pgBytes, pgHeader, pgColumn, pgCompressors,
                   pgRepetitionLevels, pgNumNulls, pgValues, pgDecompressed>>
    /\ UNCHANGED <<asmVars, rleVars, mdVars, thVars, viVars, plVars, rnVars,
                   dlVars, d2Vars, wkVars>>

\* dataPage = ...; return { definitionLevels, repetitionLevels, dataPage },
\* given the outcome r of the read of the values
PgValuesReadV2(r) ==
    IF ~Returns(r)
    THEN UNCHANGED <<pgValues, pgPc, pgError>>
    ELSE IF ~r.ok
    THEN PgThrow(r.err) /\ UNCHANGED pgValues
    ELSE /\ pgValues' = r.value
         /\ pgPc' = "done"
         /\ UNCHANGED pgError

PgReadValuesV2 ==
    /\ pgVersion = 2
    /\ pgPc = "values"
    /\ PgValuesReadV2(ReadPageValuesV2(pgBytes, pgOffset, pgHeader, pgColumn,
                                       pgCompressors))
    /\ pgDecompressed' = DecompressCalls(pgBytes, pgOffset, pgHeader, pgColumn)
    /\ UNCHANGED <<pgVersion, pgBytes, pgHeader, pgColumn, pgCompressors, pgOffset,
                   pgRepetitionLevels, pgDefinitionLevels, pgNumNulls>>
    /\ UNCHANGED <<asmVars, rleVars, mdVars, thVars, viVars, plVars, rnVars,
                   dlVars, d2Vars, wkVars>>

\* the page header of the two readers, as one record
PageHeader(p, n, nulls, enc, defEnc, repEnc, defLen, repLen, comp, size) ==
    [present |-> p, num_values |-> n, num_nulls |-> nulls,
     encoding |-> enc, definition_level_encoding |-> defEnc,
     repetition_level_encoding |-> repEnc,
     definition_levels_byte_length |-> defLen,
     repetition_levels_byte_length |-> repLen,
     is_compressed |-> comp, uncompressed_page_size |-> size]

\* columnMetadata, and for its path getMaxRepetitionLevel,
\* getMaxDefinitionLevel, isRequired and converted_type === 'UTF8'
Column(type, codec, pathLength, maxRep, maxDef, utf8) ==
    [type |-> type, codec |-> codec, path_length |-> pathLength,
     maxRepetitionLevel |-> maxRep, maxDefinitionLevel |-> maxDef,
     required |-> (maxDef = 0), utf8 |-> utf8]

\* no page read in progress
PgIdle ==
    /\ pgVersion = 0
    /\ pgBytes = <<>>
    /\ pgHeader = PageHeader(FALSE, 0, 0, "", "", "", 0, 0, FALSE, 0)
    /\ pgColumn = Column("", "", 0, 0, 0, FALSE)
    /\ pgCompressors = {}
    /\ pgOffset = 0
    /\ pgRepetitionLevels = JsUndefined
    /\ pgDefinitionLevels = JsUndefined
    /\ pgNumNulls = 0
    /\ pgValues = JsArray(<<>>)
    /\ pgDecompressed = <<>>
    /\ pgPc = "idle"
    /\ pgError = ""

----------------------------------------------------------------------------
(* Inputs of assembleObjects *)

\* the calls made by the tests of assembleObjects
AsmCall(D, R, V, nullable, maxDef, maxRep) ==
    [D |-> D, R |-> R, V |-> V, nullable |-> nullable,
     maxDef |-> maxDef, maxRep |-> maxRep]

TestMultipleLists6 ==
    AsmCall(<<>>, <<0, 1, 1, 0, 1, 1>>, <<1, 2, 3, 4, 5, 6>>, FALSE, 3, 1)
TestNestedArrays ==
    AsmCall(<<>>, <<0, 2, 1, 2>>, <<1, 2, 3, 4>>, FALSE, 3, 2)
TestNullValues ==
    AsmCall(<<3, 0, 3>>, <<0, 1, 1>>, <<1, 3>>, TRUE, 3, 1)
TestListsWithNulls ==
    AsmCall(<<3, 3, 0, 3, 3>>, <<0, 1, 0, 0, 1>>, <<1, 2, 4, 5>>, TRUE, 3, 1)
TestTopRepetitionLevel ==
    AsmCall(<<2, 2, 2, 2, 1, 1, 1, 0, 2, 2>>, <<0, 1, 0, 1, 0, 0, 0, 0, 0, 1>>,
            <<1, 2, 1, 2, 1, 3>>, TRUE, 2, 1)

\* levels that start above 0 and exceed maxRepetitionLevel
TestIrregularLevels ==
    AsmCall(<<>>, <<2, 0, 3, 1>>, <<1, 2, 3, 4>>, FALSE, 3, 2)
TestIrregularNullable ==
    AsmCall(<<4, 0, 5, 1>>, <<3, 0, 1, 0>>, <<>>, TRUE, 3, 1)
AsmTests == {TestMultipleLists6, TestNestedArrays, TestNullValues,
             TestListsWithNulls, TestTopRepetitionLevel, TestIrregularLevels,
             TestIrregularNullable}

\* level sequences R with R[0] = 0 and every level <= maxRep
RepSeqs(maxRep) ==
    {R \in SeqsUpTo(0..maxRep, MaxLevels) : Len(R) > 0 /\ R[1] = 0}

\* D absent, or of the length of R with every level <= maxDef
DefSeqs(R, maxDef) == {<<>>} \cup [1..Len(R) -> 0..maxDef]

\* V: the values 1, 2, ... one per entry whose definition level is maxDef
ValuesFor(D, R, maxDef) == Iota(IF D = <<>> THEN Len(R) ELSE CountEq(D, maxDef))

\* the locals of assembleObjects at the start of a call c
AsmStart(c) ==
    /\ definitionLevels = c.D
    /\ repetitionLevels = c.R
    /\ values = c.V
    /\ isNullable = c.nullable
    /\ maxDefinitionLevel = c.maxDef
    /\ maxRepetitionLevel = c.maxRep
    /\ heap = << <<>> >>
    /\ containerStack = <<output>>
    /\ currentContainer = output
    /\ valueIndex = 0
    /\ i = 0
    /\ asmPc = "loop"
    /\ asmResult = 0

AsmInit ==
    \/ \E c \in AsmTests : AsmStart(c)
    \/ \E mr \in 0..MaxRep, md \in 0..MaxDef, nl \in BOOLEAN :
         \/ \E R \in RepSeqs(mr) : \E D \in DefSeqs(R, md) :
               AsmStart(AsmCall(D, R, ValuesFor(D, R, md), nl, md, mr))
         \/ \E V \in {<<>>, <<1>>, <<1, 2>>} :
               AsmStart(AsmCall(<<>>, <<>>, V, nl, md, mr))

\* no call of assembleObjects in progress
AsmIdle ==
    /\ definitionLevels = <<>>
    /\ repetitionLevels = <<>>
    /\ values = <<>>
    /\ isNullable = FALSE
    /\ maxDefinitionLevel = 0
    /\ maxRepetitionLevel = 0
    /\ heap = << <<>> >>
    /\ containerStack = <<output>>
    /\ currentContainer = output
    /\ valueIndex = 0
    /\ i = 0
    /\ asmPc = "idle"
    /\ asmResult = 0

InitAssemble == AsmInit /\ RleIdle /\ MdIdle /\ ThIdle /\ ViIdle /\ PlIdle
    /\ PgIdle /\ RnIdle /\ DlIdle /\ D2Idle /\ WkIdle
NextAssemble == AssembleStep \/ AssembleReturn
SpecAssemble == InitAssemble /\ [][NextAssemble]_vars

----------------------------------------------------------------------------
(* Inputs of readRleBitPackedHybrid *)

\* the bytes streams are made of: the headers 1 (bit-packed, no group),
\* 2, 6 (RLE runs of 1 and 3) and 3 (bit-packed, one group of 8)
RleBytes == {1, 2, 3, 6}

RleStreams == SeqsUpTo(RleBytes, MaxBytes) \ {<<>>}

\* streams with a two-byte header: 128 = an RLE run of 64
RleLongStreams == {<<128, 1, 5>>, <<128, 1, 5, 2, 1>>}

RleWidths == {1, 3, 9}

\* n as the four bytes of a little-endian int32
Int32Bytes(n) ==
    <<n % 256, (n \div 256) % 256, (n \div 65536) % 256, (n \div 16777216) % 256>>

RleStart(v, w, len, n) ==
    /\ view = v
    /\ offset = 0
    /\ width = w
    /\ length = len
    /\ numValues = n
    /\ value = <<>>
    /\ startOffset = 0
    /\ rlePc = "call"
    /\ rleError = ""

RleInit ==
    \E st \in RleStreams \cup RleLongStreams, w \in RleWidths, n \in 0..MaxNumValues :
        \* an explicit byte length
        \/ \E len \in 1..Len(st) : RleStart(st, w, len, n)
        \* length 0: the length is the int32 before the stream
        \/ \E len \in {-1, 0, Len(st)} : RleStart(Int32Bytes(len) \o st, w, 0, n)

InitRle == RleInit /\ AsmIdle /\ MdIdle /\ ThIdle /\ ViIdle /\ PlIdle
    /\ PgIdle /\ RnIdle /\ DlIdle /\ D2Idle /\ WkIdle
NextRle == RleBegin \/ RleRun \/ RleReturn
SpecRle == InitRle /\ [][NextRle]_vars


----------------------------------------------------------------------------
(* parquetMetadata(arrayBuffer)                                            *)

\* "PAR1" read as a big-endian uint32: a mutant of Magic
MagicBigEndian == 80 * 16777216 + 65 * 65536 + 82 * 256 + 49

\* 0x31524150: "PAR1" read as a little-endian uint32
Magic == 827474256

\* arr.map(f) and arr?.map(f) throw a TypeError unless arr is an array
\* (or, for ?.map, undefined)
IsArray(v) == v.t = "array"
IsArrayOrUndefined(v) == v.t \in {"array", "undefined"}

\* the callback of metadata.field_2.map
SchemaElement(field) ==
    JsObject([type |-> Get(field, "field_1"),
              type_length |-> Get(field, "field_2"),
              repetition_type |-> Get(field, "field_3"),
              name |-> Get(field, "field_4"),
              num_children |-> Get(field, "field_5"),
              converted_type |-> Get(field, "field_6"),
              scale |-> Get(field, "field_7"),
              precision |-> Get(field, "field_8"),
              field_id |-> Get(field, "field_9")])

\* metadata.field_2.map(...), for an array
MapSchemaElement(arr) ==
    IF arr.t = "array"
    THEN JsArray([k \in 1..Len(arr.items) |-> SchemaElement(arr.items[k])])
    ELSE JsUndefined

\* the callback of column.field_3.field_13?.map
PageEncodingStats(encodingStat) ==
    JsObject([page_type |-> Get(encodingStat, "field_1"),
              encoding |-> Get(encodingStat, "field_2"),
              count |-> Get(encodingStat, "field_3")])

\* column.field_3.field_13?.map(...), for an array or undefined
MapPageEncodingStats(arr) ==
    IF arr.t = "array"
    THEN JsArray([k \in 1..Len(arr.items) |-> PageEncodingStats(arr.items[k])])
    ELSE JsUndefined

\* column.field_3.field_12 && { max, min, null_count, distinct_count }
Statistics(stats) ==
    IF ~Truthy(stats) THEN stats
    ELSE JsObject([max |-> Get(stats, "field_1"),
                   min |-> Get(stats, "field_2"),
                   null_count |-> Get(stats, "field_3"),
                   distinct_count |-> Get(stats, "field_4")])

\* column.field_3 && { type, encodings, ... }
ColumnMetaData(md) ==
    IF ~Truthy(md) THEN md
    ELSE JsObject([type |-> Get(md, "field_1"),
                   encodings |-> Get(md, "field_2"),
                   path_in_schema |-> Get(md, "field_3"),
                   codec |-> Get(md, "field_4"),
                   num_values |-> Get(md, "field_5"),
                   total_uncompressed_size |-> Get(md, "field_6"),
                   total_compressed_size |-> Get(md, "field_7"),
                   key_value_metadata |-> Get(md, "field_8"),
                   data_page_offset |-> Get(md, "field_9"),
                   index_page_offset |-> Get(md, "field_10"),
                   dictionary_page_offset |-> Get(md, "field_11"),
                   statistics |-> Statistics(Get(md, "field_12")),
                   encoding_stats |->
                       MapPageEncodingStats(Get(md, "field_13"))])

\* the callback of rowGroup.field_1.map
ColumnChunk(column) ==
    JsObject([file_path |-> Get(column, "field_1"),
              file_offset |-> Get(column, "field_2"),
              meta_data |-> ColumnMetaData(Get(column, "field_3"))])

\* rowGroup.field_1.map(...), for an array
MapColumnChunk(arr) ==
    IF arr.t = "array"
    THEN JsArray([k \in 1..Len(arr.items) |-> ColumnChunk(arr.items[k])])
    ELSE JsUndefined

\* the callback of rowGroup.field_4?.map
SortingColumn(sortingColumn) ==
    JsObject([column_idx |-> Get(sortingColumn, "field_1"),
              descending |-> Get(sortingColumn, "field_2"),
              nulls_first |-> Get(sortingColumn, "field_3")])

\* rowGroup.field_4?.map(...), for an array or undefined
MapSortingColumn(arr) ==
    IF arr.t = "array"
    THEN JsArray([k \in 1..Len(arr.items) |-> SortingColumn(arr.items[k])])
    ELSE JsUndefined

\* the callback of metadata.field_4.map
RowGroup(rowGroup) ==
    JsObject([columns |-> MapColumnChunk(Get(rowGroup, "field_1")),
              total_byte_size |-> Get(rowGroup, "field_2"),
              num_rows |-> Get(rowGroup, "field_3"),
              sorting_columns |->
                  MapSortingColumn(Get(rowGroup, "field_4"))])

\* metadata.field_4.map(...), for an array
MapRowGroup(arr) ==
    IF arr.t = "array"
    THEN JsArray([k \in 1..Len(arr.items) |-> RowGroup(arr.items[k])])
    ELSE JsUndefined

\* the callback of metadata.field_5?.map
KeyValue(keyValue) ==
    JsObject([key |-> Get(keyValue, "field_1"),
              value |-> Get(keyValue, "field_2")])

\* metadata.field_5?.map(...), for an array or undefined
MapKeyValue(arr) ==
    IF arr.t = "array"
    THEN JsArray([k \in 1..Len(arr.items) |-> KeyValue(arr.items[k])])
    ELSE JsUndefined

\* a .map in the re-shaping of the tree m is called on something
\* that has no map method: a TypeError
ColumnThrows(column) ==
    /\ Truthy(Get(column, "field_3"))
    /\ ~IsArrayOrUndefined(Get(Get(column, "field_3"), "field_13"))

RowGroupThrows(rowGroup) ==
    \/ ~IsArray(Get(rowGroup, "field_1"))
    \/ \E k \in 1..Len(Get(rowGroup, "field_1").items) :
          ColumnThrows(Get(rowGroup, "field_1").items[k])
    \/ ~IsArrayOrUndefined(Get(rowGroup, "field_4"))

ReshapeThrows(m) ==
    \/ ~IsArray(Get(m, "field_2"))
    \/ ~IsArray(Get(m, "field_4"))
    \/ \E k \in 1..Len(Get(m, "field_4").items) :
          RowGroupThrows(Get(m, "field_4").items[k])
    \/ ~IsArrayOrUndefined(Get(m, "field_5"))

\* the object parquetMetadata returns, when no .map throws
FileMetaData(m, len) ==
    JsObject([version |-> Get(m, "field_1"),
              schema |-> MapSchemaElement(Get(m, "field_2")),
              num_rows |-> Get(m, "field_3"),
              row_groups |-> MapRowGroup(Get(m, "field_4")),
              key_value_metadata |-> MapKeyValue(Get(m, "field_5")),
              created_by |-> Get(m, "field_6"),
              metadata_length |-> JsNumber(len)])

\* the offset where the footer magic is read
FooterMagicOffset(v) == Len(v) - 4

\* the two checks on view.byteLength and on the footer magic
MdCheckFooter ==
    /\ mdPc = "start"
    /\ IF Len(arrayBuffer) < 8
       THEN mdPc' = "error" /\ mdError' = "parquet file is too short"
       ELSE IF GetUint32(arrayBuffer, FooterMagicOffset(arrayBuffer)) # Magic
       THEN mdPc' = "error" /\ mdError' = "parquet file invalid magic number"
       ELSE mdPc' = "length" /\ UNCHANGED mdError
    /\ UNCHANGED <<arrayBuffer, metadataLength, metadataBuffer, metadata,
                   mdResult, thriftCalls>>
    /\ UNCHANGED <<asmVars, rleVars, thVars, viVars, plVars, pgVars, rnVars,
                   dlVars, d2Vars, wkVars>>

\* the check with >= for >: a mutant of ExceedsBuffer
ExceedsBufferStrict(len, v) == len >= Len(v) - 8

\* metadataLength > view.byteLength - 8
ExceedsBuffer(len, v) == len > Len(v) - 8

\* the read of metadataLength and the two checks on it
MdReadLength ==
    /\ mdPc = "length"
    /\ LET len == GetUint32(arrayBuffer, Len(arrayBuffer) - 8)
       IN /\ metadataLength' = len
          /\ IF len <= 0
             THEN mdPc' = "error" /\ mdError' = "parquet invalid metadata length"
             ELSE IF ExceedsBuffer(len, arrayBuffer)
             THEN /\ mdPc' = "error"
                  /\ mdError' = "parquet metadata length exceeds buffer size"
             ELSE mdPc' = "decode" /\ UNCHANGED mdError
    /\ UNCHANGED <<arrayBuffer, metadataBuffer, metadata, mdResult, thriftCalls>>
    /\ UNCHANGED <<asmVars, rleVars, thVars, viVars, plVars, pgVars, rnVars,
                   dlVars, d2Vars, wkVars>>

\* the slice taken up to the footer magic: a mutant of MetadataSlice
MetadataSliceLate(v, len) == Slice(v, (Len(v) - 4) - len, Len(v) - 4)

\* view.buffer.slice(metadataOffset, metadataLengthOffset)
MetadataSlice(v, len) ==
    LET metadataLengthOffset == Len(v) - 8
        metadataOffset == metadataLengthOffset - len
    IN Slice(v, metadataOffset, metadataLengthOffset)

\* the outcome d of deserializeTCompactProtocol(buf)
MdDecoded(buf, d) ==
    /\ metadataBuffer' = buf
    /\ thriftCalls' = thriftCalls + 1
    /\ IF d.ok
       THEN mdPc' = "reshape" /\ metadata' = d.value /\ UNCHANGED mdError
       ELSE mdPc' = "error" /\ mdError' = d.err /\ UNCHANGED metadata

\* the slice of the metadata and deserializeTCompactProtocol(metadataBuffer)
MdDecode ==
    /\ mdPc = "decode"
    /\ MdDecoded(MetadataSlice(arrayBuffer, metadataLength),
                 DeserializeTCompactProtocol(
                     MetadataSlice(arrayBuffer, metadataLength)))
    /\ UNCHANGED <<arrayBuffer, metadataLength, mdResult>>
    /\ UNCHANGED <<asmVars, rleVars, thVars, viVars, plVars, pgVars, rnVars,
                   dlVars, d2Vars, wkVars>>

\* the re-shaping of the Thrift tree and the return
MdReshape ==
    /\ mdPc = "reshape"
    /\ IF ReshapeThrows(metadata)
       THEN mdPc' = "error" /\ mdError' = "TypeError" /\ UNCHANGED mdResult
       ELSE /\ mdPc' = "done"
            /\ mdResult' = FileMetaData(metadata, metadataLength)
            /\ UNCHANGED mdError
    /\ UNCHANGED <<arrayBuffer, metadataLength, metadataBuffer, metadata,
                   thriftCalls>>
    /\ UNCHANGED <<asmVars, rleVars, thVars, viVars, plVars, pgVars, rnVars,
                   dlVars, d2Vars, wkVars>>

----------------------------------------------------------------------------
(* Inputs of parquetMetadata *)

\* "PAR1"
Par1 == <<80, 65, 82, 49>>

\* four bytes that are not the magic: "PAR2", "1RAP", zeros
NotPar1 == {<<80, 65, 82, 50>>, <<49, 82, 65, 80>>, <<0, 0, 0, 0>>}

\* a FileMetaData of 16 bytes: version 1, schema [{name: "r"}], num_rows 0,
\* row_groups [], created_by "x"
TinyMetadata == <<21, 2, 25, 28, 72, 1, 114, 0, 22, 0, 25, 12, 40, 1, 120, 0>>

\* the zigzag varint of a small n >= 0
ZigZagByte(n) == 2 * n

\* a FileMetaData with a root and one leaf column, one row group with one
\* column chunk and its encoding statistics
ColumnFile(type, repetition, converted, encoding, codec, pageType) ==
       <<21, 2>>                                 \* 1: version = 1
    \o <<25, 44>>                                \* 2: schema, 2 structs
    \o <<72, 1, 114, 21, 2, 0>>                  \*   name "r", num_children 1
    \o <<21, ZigZagByte(type)>>                  \*   1: type
    \o <<37, ZigZagByte(repetition)>>            \*   3: repetition_type
    \o <<24, 1, 97>>                             \*   4: name "a"
    \o <<37, ZigZagByte(converted), 0>>          \*   6: converted_type
    \o <<22, 4>>                                 \* 3: num_rows = 2
    \o <<25, 28>>                                \* 4: row_groups, 1 struct
    \o <<25, 28>>                                \*   1: columns, 1 struct
    \o <<38, 8>>                                 \*     2: file_offset = 4
    \o <<28>>                                    \*     3: meta_data
    \o <<21, ZigZagByte(type)>>                  \*       1: type
    \o <<25, 21, ZigZagByte(encoding)>>          \*       2: encodings
    \o <<25, 24, 1, 97>>                         \*       3: path_in_schema
    \o <<21, ZigZagByte(codec)>>                 \*       4: codec
    \o <<22, 4, 22, 8, 22, 8>>                   \*       5, 6, 7: sizes
    \o <<38, 8>>                                 \*       9: data_page_offset
    \o <<73, 28>>                                \*       13: encoding_stats
    \o <<21, ZigZagByte(pageType)>>              \*         1: page_type
    \o <<21, ZigZagByte(encoding), 21, 2, 0>>    \*         2: encoding, 3: count
    \o <<0, 0>>                                  \*     end of meta_data, column
    \o <<22, 8, 22, 4, 0>>                       \*   2: total_byte_size, 3: num_rows
    \o <<0>>

\* the enum integers the column files are written with
SomeTypes == {1, 6}
SomeRepetitions == {0, 1}
SomeConverted == {0}
SomeEncodings == {0, 8}
SomeCodecs == {0, 1}
SomePageTypes == {0, 3}

ColumnFiles ==
    {ColumnFile(ty, re, cv, en, co, pt) :
        ty \in SomeTypes, re \in SomeRepetitions, cv \in SomeConverted,
        en \in SomeEncodings, co \in SomeCodecs, pt \in SomePageTypes}

\* the row-group bytes between the header and the metadata
Bodies == {[k \in 1..n |-> 7] : n \in 0..MaxBody}

\* header, body, metadata, declared metadata length, footer magic
ParquetFile(header, body, md, len, footer) ==
    header \o body \o md \o Int32Bytes(len) \o footer

MdBuffers ==
    \* well-formed files
       {ParquetFile(Par1, b, md, Len(md), Par1) :
           b \in Bodies, md \in {TinyMetadata} \cup ColumnFiles}
    \* every declared length from 0 to past the start of the buffer
    \cup UNION {{ParquetFile(Par1, b, TinyMetadata, len, Par1) :
                   len \in 0..(Len(b) + Len(TinyMetadata) + 6)} : b \in Bodies}
    \* a footer that is not the magic
    \cup {ParquetFile(h, b, TinyMetadata, len, f) :
             h \in {Par1} \cup NotPar1, b \in Bodies,
             len \in {0, Len(TinyMetadata), 99}, f \in NotPar1}
    \* a header that is not the magic, or no header at all
    \cup {ParquetFile(h, b, md, Len(md), Par1) :
             h \in NotPar1 \cup {<<>>}, b \in Bodies,
             md \in {TinyMetadata} \cup ColumnFiles}
    \* metadata that is not a Thrift struct: a field of type SET, a string
    \* and a list that end after the buffer
    \cup {ParquetFile(Par1, b, md, Len(md), Par1) :
             b \in Bodies, md \in {<<26, 2>>, <<24, 5, 97>>, <<25>>}}
    \* buffers of fewer than 8 bytes, and of 8 bytes
    \cup {SubSeq(Par1 \o Par1, 1, n) : n \in 0..7}
    \cup {Int32Bytes(len) \o Par1 : len \in 0..1}

MdInit ==
    \E buf \in MdBuffers :
        /\ arrayBuffer = buf
        /\ mdPc = "start"
        /\ mdError = ""
        /\ metadataLength = -1
        /\ metadataBuffer = <<>>
        /\ metadata = JsUndefined
        /\ mdResult = JsUndefined
        /\ thriftCalls = 0

InitMetadata == MdInit /\ AsmIdle /\ RleIdle /\ ThIdle /\ ViIdle /\ PlIdle
    /\ PgIdle /\ RnIdle /\ DlIdle /\ D2Idle /\ WkIdle
NextMetadata == MdCheckFooter \/ MdReadLength \/ MdDecode \/ MdReshape
SpecMetadata == InitMetadata /\ [][NextMetadata]_vars

----------------------------------------------------------------------------
(* Inputs of deserializeTCompactProtocol: buffers of up to MaxFields       *)
(* fields, with and without the closing STOP byte                          *)

\* zeros(n): n bytes 0
Zeros(n) == [k \in 1..n |-> 0]

\* one field each: its header (delta and type, or type and an absolute id)
\* and its value
ThFields ==
    { <<17>>,                 \* delta 1, TRUE
      <<34>>,                 \* delta 2, FALSE
      <<243, 255>>,           \* delta 15, BYTE -1
      <<21, 4>>,              \* delta 1, I32 2
      <<1, 10>>,              \* delta 0, id 5, TRUE
      <<2, 3>>,               \* delta 0, id -2, FALSE
      <<4, 172, 2, 6>>,       \* delta 0, id 150 (varint AC 02), I16 3
      <<22, 2>>,              \* delta 1, I64 1
      <<23>> \o Zeros(8),     \* delta 1, DOUBLE
      <<24, 1, 97>>,          \* delta 1, BINARY "a"
      <<25, 17>>,             \* delta 1, LIST of one TRUE
      <<25, 30>>,             \* delta 1, LIST of one element of type 14
      <<26, 17>>,             \* delta 1, SET of one TRUE
      <<27, 0>>,              \* delta 1, MAP, empty
      <<27, 1, 17, 17>>,      \* delta 1, MAP of one TRUE -> TRUE
      <<28, 17, 0>>,          \* delta 1, STRUCT { field_1: true }
      <<29>> \o Zeros(16),    \* delta 1, UUID
      <<30>>,                 \* delta 1, type 14
      <<47>> }                \* delta 2, type 15

RECURSIVE Flatten(_)
Flatten(seqs) == IF seqs = <<>> THEN <<>> ELSE seqs[1] \o Flatten(Tail(seqs))

ThBuffers ==
    { Flatten(fs) \o stop : fs \in SeqsUpTo(ThFields, MaxFields),
                            stop \in {<<>>, <<0>>, <<80>>} }

\* const view = new DataView(buffer); let byteLength = 0; let lastFid = 0;
\* const value = {}
ThStart(b) ==
    /\ thBuffer = b
    /\ thByteLength = 0
    /\ thLastFid = 0
    /\ thValue = EmptyObject
    /\ thType = 0
    /\ thFid = 0
    /\ thPc = "loop"
    /\ thError = ""

ThInit == \E b \in ThBuffers : ThStart(b)

InitThrift == ThInit /\ AsmIdle /\ RleIdle /\ MdIdle /\ ViIdle /\ PlIdle
    /\ PgIdle /\ RnIdle /\ DlIdle /\ D2Idle /\ WkIdle
NextThrift == ThFieldBegin \/ ThElement \/ ThReturn
SpecThrift == InitThrift /\ [][NextThrift]_vars

----------------------------------------------------------------------------
(* Inputs of toVarInt and of readVarInt / readVarBigInt *)

\* the parts of the numbers encoded: 0, 1, 150 = 1 * 128 + 22,
\* 300 = 2 * 128 + 44, 2^14, 2^21, 2^28, 2^31 - 1, 2^31 = 2^24 * 128,
\* 2^32 - 1, 2^32, 2^32 + 1, ...
ViTops == {0, 1}
ViMids == {0, 1, 2, 128, 16384, 2097152, 16777215, 16777216, 33554431}
ViLows == {0, 1, 22, 44, 127}

\* the varints read: k bytes 0x80 and a last byte, or no last byte, and the
\* encodings of 300, of 150 and of 2^31 - 1
ViStreams ==
    { Repeat(128, k) \o last : k \in 0..MaxVarintBytes, last \in {<<0>>, <<1>>, <<>>} }
      \cup { <<172, 2>>, <<150, 1>>, <<255, 255, 255, 255, 7>> }

\* a bigint below 2^31: the bytes from the fifth on carry no bits
ViSmallBigInt(b) == \A k \in 1..Len(b) : k > 4 => b[k] % 128 = 0

ViEncodeStart(n) ==
    /\ viArg = n
    /\ viN = n
    /\ varInt = <<>>
    /\ viView = <<>>
    /\ viIndex = 0
    /\ viResult = 0
    /\ viShift = 0
    /\ viBig = FALSE
    /\ viPc = "encode"
    /\ viError = ""

ViReadStart(b, big) ==
    /\ viArg = WideOf(0)
    /\ viN = WideOf(0)
    /\ varInt = <<>>
    /\ viView = b
    /\ viIndex = 0
    /\ viResult = 0
    /\ viShift = 0
    /\ viBig = big
    /\ viPc = "read"
    /\ viError = ""

ViInit ==
    \/ \E top \in ViTops, mid \in ViMids, low \in ViLows :
          ViEncodeStart(Wide(top, mid, low))
    \/ \E b \in ViStreams, big \in BOOLEAN :
          (big => ViSmallBigInt(b)) /\ ViReadStart(b, big)

InitVarInt == ViInit /\ AsmIdle /\ RleIdle /\ MdIdle /\ ThIdle /\ PlIdle
    /\ PgIdle /\ RnIdle /\ DlIdle /\ D2Idle /\ WkIdle
NextVarInt == ToVarIntStep \/ ViLoad \/ ReadVarIntStep \/ ReadVarBigIntStep
SpecVarInt == InitVarInt /\ [][NextVarInt]_vars

----------------------------------------------------------------------------
(* Inputs of readPlain *)

PlainTypes ==
    {"BOOLEAN", "INT32", "INT64", "INT96", "FLOAT", "DOUBLE", "BYTE_ARRAY",
     "FIXED_LEN_BYTE_ARRAY", "invalidType"}

\* the INT96 of the test (low 0x0123456789ABCDEF, high 0x02345678) and a
\* second one with the sign bits of both halves; two byte arrays with
\* their lengths; an INT96 with a zero high half
PlainBuffers ==
    { <<239, 205, 171, 137, 103, 69, 35, 1, 120, 86, 52, 2,
        1, 0, 0, 0, 0, 0, 0, 128, 0, 0, 0, 128>>,
      <<3, 0, 0, 0, 97, 98, 195, 1, 0, 0, 0, 4, 5, 6, 7, 8, 9, 10, 11, 12,
        13, 14, 15, 16>>,
      <<5, 0, 0, 0, 0, 0, 0, 0, 0, 0, 0, 0, 255, 255, 255, 255>> }

PlainStart(v, rest, off, type, count, utf8, typeLength) ==
    /\ plView = v
    /\ plRest = rest
    /\ plOffset = off
    /\ plStart = off
    /\ plType = type
    /\ plCount = count
    /\ plUtf8 = utf8
    /\ plTypeLength = typeLength
    /\ plResult = JsUndefined
    /\ plPc = "call"
    /\ plError = ""

PlInit ==
    \E b \in PlainBuffers, n \in 0..MaxPlainBytes, off \in {0, 4},
       type \in PlainTypes, count \in 0..MaxPlainCount :
       \E utf8 \in (IF type = "BYTE_ARRAY" THEN BOOLEAN ELSE {FALSE}),
          typeLength \in (IF type = "FIXED_LEN_BYTE_ARRAY" THEN 1..3 ELSE {0}) :
          /\ n <= Len(b)
          /\ PlainStart(SubSeq(b, 1, n), SubSeq(b, n + 1, Len(b)), off, type,
                        count, utf8, typeLength)

InitPlain == PlInit /\ AsmIdle /\ RleIdle /\ MdIdle /\ ThIdle /\ ViIdle
    /\ PgIdle /\ RnIdle /\ DlIdle /\ D2Idle /\ WkIdle
NextPlain == PlainRead
SpecPlain == InitPlain /\ [][NextPlain]_vars

----------------------------------------------------------------------------
(* Inputs of readDataPage and readDataPageV2 *)

PageEncodings ==
    {"PLAIN", "RLE", "PLAIN_DICTIONARY", "RLE_DICTIONARY", "DELTA_BINARY_PACKED",
     "DELTA_LENGTH_BYTE_ARRAY", "DELTA_BYTE_ARRAY", "BIT_PACKED"}

\* flat required, flat optional, a repeated leaf under a group, and a
\* repeated column of a one-name path
PageColumns ==
    { Column(type, codec, shape[1], shape[2], shape[3], FALSE) :
        type \in {"INT32", "BOOLEAN"}, codec \in {"UNCOMPRESSED", "SNAPPY"},
        shape \in {<<1, 0, 0>>, <<1, 0, 1>>, <<2, 1, 2>>, <<1, 1, 1>>} }

\* V1 pages: levels with their int32 byte length, then the values
PageBytesV1 ==
    { <<>>,
      \* two int32 values
      <<7, 0, 0, 0, 8, 0, 0, 0>>,
      \* definition levels 1, 1 (RLE run of 2), then two int32 values
      <<2, 0, 0, 0, 4, 1, 7, 0, 0, 0, 8, 0, 0, 0>>,
      \* definition levels 1, 0 (bit-packed), then one int32 value
      <<2, 0, 0, 0, 3, 1, 7, 0, 0, 0>>,
      \* definition levels 0, 0 (all null) and no value
      <<2, 0, 0, 0, 4, 0>>,
      \* definition levels 0, 0 (all null), then a bit width 1 and no index
      <<2, 0, 0, 0, 4, 0, 1>>,
      \* repetition levels 0, 1, definition levels 2, 2 (width 2), then a
      \* bit width 1 and indices 1, 0 (bit-packed)
      <<2, 0, 0, 0, 3, 2, 2, 0, 0, 0, 4, 2, 1, 3, 1>>,
      \* a negative length
      <<255, 255, 255, 255>> }

\* V2 pages: the levels without a length, then the values
PageBytesV2 ==
    { <<>>,
      <<7, 0, 0, 0, 8, 0, 0, 0>>,
      <<4, 1, 7, 0, 0, 0, 8, 0, 0, 0>>,
      <<3, 2, 4, 2, 1, 3, 1>>,
      <<0, 0, 0, 0, 0, 7, 0, 0, 0>>,
      \* DELTA_BINARY_PACKED: blockSize 8, 1 miniblock, 2 values, first value
      \* 1; a block of minDelta 1 and bit width 0
      <<8, 1, 2, 2, 2, 0>>,
      \* the same header with first value 0; a block of minDelta 0 and bit
      \* width 1, and its byte
      <<8, 1, 2, 0, 0, 1, 1>> }

PgStart(version, bytes, header, col, compressors) ==
    /\ pgVersion = version
    /\ pgBytes = bytes
    /\ pgHeader = header
    /\ pgColumn = col
    /\ pgCompressors = compressors
    /\ pgOffset = 0
    /\ pgRepetitionLevels = JsUndefined
    /\ pgDefinitionLevels = JsUndefined
    /\ pgNumNulls = 0
    /\ pgValues = JsArray(<<>>)
    /\ pgDecompressed = <<>>
    /\ pgPc = "repetition"
    /\ pgError = ""

PgInit ==
    \E col \in PageColumns, enc \in PageEncodings, n \in 0..MaxPageValues :
       \/ \E bytes \in PageBytesV1, levelEnc \in {"RLE", "BIT_PACKED"} :
             /\ col.codec = "UNCOMPRESSED"
             /\ PgStart(1, bytes,
                        PageHeader(TRUE, n, 0, enc, levelEnc, "RLE", 0, 0, FALSE,
                                   Len(bytes)),
                        col, {})
       \/ \E bytes \in PageBytesV2, nulls \in 0..1, repLen \in 0..MaxLevelBytes,
             defLen \in 0..MaxLevelBytes, comp \in BOOLEAN, present \in BOOLEAN,
             compressors \in {{}, {"SNAPPY"}} :
             /\ nulls <= n
             /\ present \/ (n = 0 /\ repLen = 0 /\ defLen = 0 /\ ~comp)
             /\ PgStart(2, bytes,
                        PageHeader(present, n, nulls, enc, "RLE", "RLE", defLen,
                                   repLen, comp, Len(bytes)),
                        col, compressors)

InitPage ==
    PgInit /\ AsmIdle /\ RleIdle /\ MdIdle /\ ThIdle /\ ViIdle /\ PlIdle
    /\ RnIdle /\ DlIdle /\ D2Idle /\ WkIdle
NextPage ==
    \/ PgReadRepetitionLevels
    \/ PgReadDefinitionLevels
    \/ PgReadValues
    \/ PgReadRepetitionLevelsV2
    \/ PgReadDefinitionLevelsV2
    \/ PgReadValuesV2
SpecPage == InitPage /\ [][NextPage]_vars

----------------------------------------------------------------------------
(* Inputs of readRle and readBitPacked *)

RunWidths == 0..32

\* byte k (from 1) of each pattern: the byte 5 then zeros, every bit set,
\* and bytes that differ from one another
RunPattern(p, k) ==
    CASE p = "five" -> IF k = 1 THEN 5 ELSE 0
      [] p = "ones" -> 255
      [] OTHER -> (k * 37 + 11) % 256

RunBytes(p, n) == [k \in 1..n |-> RunPattern(p, k)]

\* the values of RLE runs: the fourth byte stays below 128 so that the
\* unsigned 32-bit value is below 2^31
RleRunBytes ==
    {<<>>, <<5>>, <<1, 2>>, <<1, 2, 3>>, <<5, 0, 0, 0>>, <<1, 2, 3, 4>>,
     <<255, 255, 255, 127>>}

RunStart(kind, v, off, header, bitWidth, remaining) ==
    /\ rnKind = kind
    /\ rnView = v
    /\ rnStart = off
    /\ rnOffset = off
    /\ rnHeader = header
    /\ rnBitWidth = bitWidth
    /\ rnRemaining = remaining
    /\ rnValue = <<>>
    /\ rnLocals = NoLocals
    /\ rnPc = "call"
    /\ rnError = ""

RnInit ==
    \E w \in RunWidths :
       \/ \E v \in RleRunBytes, count \in 0..MaxRunGroups :
             RunStart("rle", v, 0, 2 * count, w, 0)
       \/ \E p \in {"five", "ones", "mixed"}, groups \in 0..MaxRunGroups,
             short \in 0..2, off \in 0..1, wanted \in {"none", "some", "all"} :
             \* short = 0: the view holds the bytes of the run and no more
             RunStart("bitpacked",
                      RunBytes(p, IF short = 0 THEN off + groups * w
                                  ELSE short - 1),
                      IF short = 0 THEN off ELSE 0,
                      2 * groups + 1, w,
                      CASE wanted = "none" -> 0
                        [] wanted = "some" -> 3
                        [] OTHER -> 8 * groups)

InitRun ==
    RnInit /\ AsmIdle /\ RleIdle /\ MdIdle /\ ThIdle /\ ViIdle /\ PlIdle
    /\ PgIdle /\ DlIdle /\ D2Idle /\ WkIdle
NextRun ==
    \/ RunReadRle
    \/ RunBitPackedBegin
    \/ RunBitPackedStep
    \/ RunBitPackedReturn
SpecRun == InitRun /\ [][NextRun]_vars

----------------------------------------------------------------------------
(* Observations of the assembled output *)

RECURSIVE Join(_, _)
Join(strs, sep) ==
    IF Len(strs) = 0 THEN ""
    ELSE IF Len(strs) = 1 THEN strs[1]
    ELSE strs[1] \o sep \o Join(Tail(strs), sep)

\* the array id written as JSON (undefined written null)
RECURSIVE Show(_, _)
Show(h, id) ==
    "[" \o Join([k \in 1..Len(h[id]) |->
                   LET it == h[id][k]
                   IN IF it.t = "val" THEN ToString(it.x)
                      ELSE IF it.t = "list" THEN Show(h, it.x)
                      ELSE "null"], ",") \o "]"

\* the values of array id in order, each with the number of arrays around it
RECURSIVE Leaves(_, _, _)
RECURSIVE LeavesOf(_, _, _)
LeavesOf(h, items, d) ==
    IF items = <<>> THEN <<>>
    ELSE LET it == items[1]
             first == IF it.t = "val" THEN <<[v |-> it.x, depth |-> d]>>
                      ELSE IF it.t = "list" THEN Leaves(h, it.x, d + 1)
                      ELSE <<>>
         IN first \o LeavesOf(h, Tail(items), d)
Leaves(h, id, d) == LeavesOf(h, h[id], d)

\* the number of items of kind t in all the arrays of h
RECURSIVE CountKindIn(_, _)
CountKindIn(items, t) ==
    IF items = <<>> THEN 0
    ELSE (IF items[1].t = t THEN 1 ELSE 0) + CountKindIn(Tail(items), t)
RECURSIVE CountKind(_, _)
CountKind(h, t) ==
    IF h = <<>> THEN 0 ELSE CountKindIn(h[1], t) + CountKind(Tail(h), t)

Last(s) == s[Len(s)]

TheCall == AsmCall(definitionLevels, repetitionLevels, values, isNullable,
                   maxDefinitionLevel, maxRepetitionLevel)

\* an iteration of the main loop is being taken
Iterating == asmPc = "loop" /\ i' = i + 1

----------------------------------------------------------------------------
(* C1 *)

NonNullCase ==
    /\ ~isNullable
    /\ definitionLevels = <<>>
    /\ Len(repetitionLevels) > 0
    /\ repetitionLevels[1] = 0
    /\ \A k \in 1..Len(repetitionLevels) : repetitionLevels[k] <= maxRepetitionLevel
    /\ Len(values) = Len(repetitionLevels)

\* the returned lists hold exactly the values of V, in order, each inside
\* maxRepetitionLevel + 1 lists
NonNullResult ==
    (asmPc = "done" /\ NonNullCase) =>
        /\ Leaves(heap, asmResult, 1) =
              [k \in 1..Len(values) |->
                 [v |-> values[k], depth |-> maxRepetitionLevel + 1]]
        /\ CountKind(heap, "undef") = 0
        /\ (TheCall = TestMultipleLists6 => Show(heap, asmResult) = "[[1,2,3],[4,5,6]]")
        /\ (TheCall = TestNestedArrays => Show(heap, asmResult) = "[[[1,2],[3,4]]]")

\* what the entry with repetition level rep does to the lists
NonNullEntry ==
    (Iterating /\ NonNullCase) =>
        LET rep == repetitionLevels[i + 1]
            rows == Len(heap[output])
        IN /\ Len(containerStack') = maxRepetitionLevel + 1
           /\ currentContainer' = Last(containerStack')
           /\ Last(heap'[currentContainer']) = ValItem(values[i + 1])
           /\ rep = 0 => Len(heap'[output]) = rows + 1
           /\ (0 < rep /\ rep < maxRepetitionLevel) =>
                 /\ Len(heap'[output]) = rows
                 /\ SubSeq(containerStack', 1, rep + 1) = SubSeq(containerStack, 1, rep + 1)
                 /\ containerStack'[rep + 2] > Len(heap)
                 /\ heap'[containerStack[rep + 1]] =
                       Append(heap[containerStack[rep + 1]],
                              ListItem(containerStack'[rep + 2]))
           /\ rep = maxRepetitionLevel =>
                 /\ containerStack' = containerStack
                 /\ currentContainer = Last(containerStack)
                 /\ heap' = Push(heap, currentContainer, ValItem(values[i + 1]))

\* C1: with isNullable = false, no definition levels, R[0] = 0, R[i] <= maxRep
\* and |V| = |R|, every value ends at depth maxRep + 1 and the flattened
\* output is V; an entry with R[i] = 0 starts a new top-level row, one with
\* 0 < R[i] < maxRep a new list at depth R[i] + 1 in the current row, and one
\* with R[i] = maxRep is appended to the current innermost list.
C1_NonNullAssembly == [](NonNullResult) /\ [][NonNullEntry]_vars

C1_Witness ==
    /\ asmPc = "done"
    /\ NonNullCase
    /\ TheCall = TestNestedArrays
    /\ Show(heap, asmResult) = "[[[1,2],[3,4]]]"

----------------------------------------------------------------------------
(* C2 *)

NullableCase ==
    /\ isNullable
    /\ Len(repetitionLevels) > 0
    /\ Len(definitionLevels) = Len(repetitionLevels)
    /\ \A k \in 1..Len(definitionLevels) : definitionLevels[k] <= maxDefinitionLevel
    /\ Len(values) = CountEq(definitionLevels, maxDefinitionLevel)

NullableEntry ==
    (Iterating /\ NullableCase) =>
        LET def == definitionLevels[i + 1]
            placed == Last(heap'[currentContainer'])
        IN /\ currentContainer' = Last(containerStack')
           /\ def < maxDefinitionLevel =>
                 /\ valueIndex' = valueIndex
                 /\ CountKind(heap', "val") = CountKind(heap, "val")
                 /\ CountKind(heap', "undef") =
                       CountKind(heap, "undef") + (IF def % 2 = 0 THEN 1 ELSE 0)
                 /\ CountKind(heap', "list") - CountKind(heap, "list") =
                       Len(heap') - Len(heap)
                 /\ def % 2 = 0 => placed = UndefItem
                 /\ def % 2 = 1 =>
                       /\ placed = ListItem(Len(heap'))
                       /\ Len(heap') > Len(heap)
                       /\ heap'[Len(heap')] = <<>>
                       /\ \A k \in 1..Len(containerStack') : containerStack'[k] # Len(heap')
           /\ def = maxDefinitionLevel =>
                 /\ valueIndex' = valueIndex + 1
                 /\ placed = ValItem(values[valueIndex + 1])
                 /\ CountKind(heap', "val") = CountKind(heap, "val") + 1
                 /\ CountKind(heap', "undef") = CountKind(heap, "undef")

NullableResult ==
    (asmPc = "done" /\ NullableCase) =>
        /\ valueIndex = CountEq(definitionLevels, maxDefinitionLevel)
        /\ [k \in 1..valueIndex |-> Leaves(heap, asmResult, 1)[k].v] = values
        /\ (TheCall = TestTopRepetitionLevel =>
              Show(heap, asmResult) = "[[1,2],[1,2],[],[],[],null,[1,3]]")

\* C2: with isNullable = true an entry with D[i] < maxDef appends exactly one
\* placeholder (undefined when D[i] is even, an empty list when odd) and
\* consumes no value; an entry with D[i] = maxDef appends the next unused value
\* of V; exactly count(D[i] = maxDef) values are used, in order.
C2_NullableAssembly == [](NullableResult) /\ [][NullableEntry]_vars

C2_Witness ==
    /\ asmPc = "done"
    /\ NullableCase
    /\ TheCall = TestTopRepetitionLevel
    /\ Show(heap, asmResult) = "[[1,2],[1,2],[],[],[],null,[1,3]]"

----------------------------------------------------------------------------
(* C3 *)

\* C3: for a repeated column (maxRep >= 1) with R non-empty and R[0] = 0 the
\* number of top-level rows returned equals the number of entries with
\* R[i] = 0, whatever isNullable and the definition levels are.
C3_RowCount ==
    (/\ asmPc = "done"
     /\ maxRepetitionLevel >= 1
     /\ Len(repetitionLevels) > 0
     /\ repetitionLevels[1] = 0)
    => Len(heap[asmResult]) = CountEq(repetitionLevels, 0)

----------------------------------------------------------------------------
(* C4 *)

\* C4: when the bytes of the stream suffice for numValues values (every run
\* read lies within the declared length), readRleBitPackedHybrid returns
\* exactly numValues values: it returns fewer only when the byte budget ran
\* out first, and never more, also when the last run holds more values than
\* are still needed.
C4_ExactCount ==
    (rlePc = "done" /\ offset - startOffset <= length) =>
        \/ Len(value) = numValues
        \/ (Len(value) < numValues /\ offset - startOffset = length)

----------------------------------------------------------------------------
(* C5 *)

\* C5: given a byte length (explicit or read from the int32 prefix) and
\* numValues, readRleBitPackedHybrid returns with the reader offset at the
\* start of the stream plus that byte length exactly; stated for the calls
\* that produced exactly numValues >= 1 values from runs lying within the
\* declared length.
C5_ExactLength ==
    (/\ rlePc = "done"
     /\ numValues > 0
     /\ Len(value) = numValues
     /\ offset - startOffset <= length)
    => offset = startOffset + length

----------------------------------------------------------------------------
(* Observations of a call of parquetMetadata *)

\* L: the length of the buffer
FileLength == Len(arrayBuffer)

\* the last four bytes are "PAR1" (the buffer has at least 8 bytes)
FooterIsMagic ==
    FileLength >= 8 /\ SubSeq(arrayBuffer, FileLength - 3, FileLength) = Par1

\* the first four bytes are "PAR1"
HeaderIsMagic == FileLength >= 4 /\ SubSeq(arrayBuffer, 1, 4) = Par1

\* m: the little-endian uint32 at bytes [L - 8, L - 4)
DeclaredLength ==
    arrayBuffer[FileLength - 7] + 256 * arrayBuffer[FileLength - 6]
      + 65536 * arrayBuffer[FileLength - 5] + 16777216 * arrayBuffer[FileLength - 4]

\* the bytes [from, to) of the buffer
BytesOfFile(from, to) == [k \in 1..(to - from) |-> arrayBuffer[from + k]]

MdTerminated == mdPc \in {"done", "error"}

----------------------------------------------------------------------------
(* C6 *)

\* C6: when parquetMetadata hands bytes to the Thrift decoder, they are
\* exactly the bytes [L - 8 - m, L - 8) of the buffer, m being the
\* little-endian uint32 at [L - 8, L - 4), and the returned metadata_length
\* is m; a footer 0x10 0x00 0x00 0x00 "PAR1" gives m = 16 and the bytes
\* [L - 24, L - 8).
C6_MetadataRange ==
    /\ thriftCalls > 0 =>
          /\ thriftCalls = 1
          /\ FooterIsMagic
          /\ metadataLength = DeclaredLength
          /\ metadataBuffer =
                BytesOfFile(FileLength - 8 - DeclaredLength, FileLength - 8)
    /\ mdPc = "done" =>
          Get(mdResult, "metadata_length") = JsNumber(DeclaredLength)
    /\ (/\ thriftCalls > 0
        /\ SubSeq(arrayBuffer, FileLength - 7, FileLength) = <<16, 0, 0, 0>> \o Par1)
       => /\ metadataLength = 16
          /\ metadataBuffer = BytesOfFile(FileLength - 24, FileLength - 8)

\* a file with row-group bytes before its 16 bytes of metadata is decoded
\* and its metadata returned
C6_Witness ==
    /\ mdPc = "done"
    /\ FileLength > 28
    /\ HeaderIsMagic
    /\ DeclaredLength = 16
    /\ metadataBuffer = TinyMetadata
    /\ Get(mdResult, "metadata_length") = JsNumber(16)

----------------------------------------------------------------------------
(* C7 *)

\* C7: for a buffer of at least 8 bytes whose last four bytes are not
\* "PAR1", parquetMetadata fails with the invalid-magic error; the metadata
\* length is never read and the Thrift decoder never called.
C7_FooterMagic ==
    (FileLength >= 8 /\ ~FooterIsMagic) =>
        /\ mdPc \in {"start", "error"}
        /\ mdPc = "error" => mdError = "parquet file invalid magic number"
        /\ metadataLength = -1
        /\ thriftCalls = 0
        /\ metadata = JsUndefined

\* a file that is sound but for its footer magic has been rejected
C7_Witness ==
    /\ mdPc = "error"
    /\ mdError = "parquet file invalid magic number"
    /\ HeaderIsMagic
    /\ ~FooterIsMagic
    /\ DeclaredLength = 16
    /\ BytesOfFile(FileLength - 24, FileLength - 8) = TinyMetadata
    /\ metadataLength = -1
    /\ thriftCalls = 0

----------------------------------------------------------------------------
(* C8 *)

MdLengthErrors ==
    {"parquet invalid metadata length",
     "parquet metadata length exceeds buffer size"}

\* C8: with a sound footer magic, a declared metadata length that is 0 or
\* exceeds L - 8 makes parquetMetadata fail without a call of the Thrift
\* decoder; for every other declared length the Thrift decoder is called.
C8_LengthCheck ==
    FooterIsMagic =>
        IF DeclaredLength = 0 \/ DeclaredLength > FileLength - 8
        THEN /\ thriftCalls = 0
             /\ mdPc \in {"start", "length", "error"}
             /\ mdPc = "error" => mdError \in MdLengthErrors
        ELSE /\ MdTerminated => thriftCalls = 1
             /\ mdPc = "error" => mdError \notin MdLengthErrors

\* a declared length one more than L - 8 has been rejected
C8_Witness ==
    /\ mdPc = "error"
    /\ FooterIsMagic
    /\ DeclaredLength = FileLength - 7
    /\ mdError = "parquet metadata length exceeds buffer size"
    /\ thriftCalls = 0

----------------------------------------------------------------------------
(* C9 *)

\* C9: a buffer whose first four bytes are not "PAR1" is rejected with the
\* invalid-magic error even when its footer magic and metadata length are
\* sound: no metadata is returned for it.
C9_HeaderMagic ==
    (/\ FooterIsMagic
     /\ DeclaredLength > 0
     /\ DeclaredLength <= FileLength - 8
     /\ ~HeaderIsMagic)
    => /\ mdPc # "done"
       /\ mdPc = "error" => mdError = "parquet file invalid magic number"

----------------------------------------------------------------------------
(* The names of the enum values, by their Thrift integer, as code units    *)

\* ParquetType
ParquetTypeName ==
    \* BOOLEAN
       0 :> <<66, 79, 79, 76, 69, 65, 78>>
    \* INT32
    @@ 1 :> <<73, 78, 84, 51, 50>>
    \* INT64
    @@ 2 :> <<73, 78, 84, 54, 52>>
    \* INT96
    @@ 3 :> <<73, 78, 84, 57, 54>>
    \* FLOAT
    @@ 4 :> <<70, 76, 79, 65, 84>>
    \* DOUBLE
    @@ 5 :> <<68, 79, 85, 66, 76, 69>>
    \* BYTE_ARRAY
    @@ 6 :> <<66, 89, 84, 69, 95, 65, 82, 82, 65, 89>>
    \* FIXED_LEN_BYTE_ARRAY
    @@ 7 :> <<70, 73, 88, 69, 68, 95, 76, 69, 78, 95,
              66, 89, 84, 69, 95, 65, 82, 82, 65, 89>>

\* FieldRepetitionType
FieldRepetitionTypeName ==
    \* REQUIRED
       0 :> <<82, 69, 81, 85, 73, 82, 69, 68>>
    \* OPTIONAL
    @@ 1 :> <<79, 80, 84, 73, 79, 78, 65, 76>>
    \* REPEATED
    @@ 2 :> <<82, 69, 80, 69, 65, 84, 69, 68>>

\* ConvertedType
ConvertedTypeName ==
    \* UTF8
       0 :> <<85, 84, 70, 56>>
    \* MAP
    @@ 1 :> <<77, 65, 80>>
    \* MAP_KEY_VALUE
    @@ 2 :> <<77, 65, 80, 95, 75, 69, 89, 95, 86, 65, 76, 85, 69>>
    \* LIST
    @@ 3 :> <<76, 73, 83, 84>>
    \* ENUM
    @@ 4 :> <<69, 78, 85, 77>>
    \* DECIMAL
    @@ 5 :> <<68, 69, 67, 73, 77, 65, 76>>
    \* DATE
    @@ 6 :> <<68, 65, 84, 69>>
    \* TIME_MILLIS
    @@ 7 :> <<84, 73, 77, 69, 95, 77, 73, 76, 76, 73, 83>>
    \* TIME_MICROS
    @@ 8 :> <<84, 73, 77, 69, 95, 77, 73, 67, 82, 79, 83>>
    \* TIMESTAMP_MILLIS
    @@ 9 :> <<84, 73, 77, 69, 83, 84, 65, 77, 80, 95, 77, 73, 76, 76, 73, 83>>
    \* TIMESTAMP_MICROS
    @@ 10 :> <<84, 73, 77, 69, 83, 84, 65, 77,
              80, 95, 77, 73, 67, 82, 79, 83>>
    \* UINT_8
    @@ 11 :> <<85, 73, 78, 84, 95, 56>>
    \* UINT_16
    @@ 12 :> <<85, 73, 78, 84, 95, 49, 54>>
    \* UINT_32
    @@ 13 :> <<85, 73, 78, 84, 95, 51, 50>>
    \* UINT_64
    @@ 14 :> <<85, 73, 78, 84, 95, 54, 52>>
    \* INT_8
    @@ 15 :> <<73, 78, 84, 95, 56>>
    \* INT_16
    @@ 16 :> <<73, 78, 84, 95, 49, 54>>
    \* INT_32
    @@ 17 :> <<73, 78, 84, 95, 51, 50>>
    \* INT_64
    @@ 18 :> <<73, 78, 84, 95, 54, 52>>
    \* JSON
    @@ 19 :> <<74, 83, 79, 78>>
    \* BSON
    @@ 20 :> <<66, 83, 79, 78>>
    \* INTERVAL
    @@ 21 :> <<73, 78, 84, 69, 82, 86, 65, 76>>

\* Encoding
EncodingName ==
    \* PLAIN
       0 :> <<80, 76, 65, 73, 78>>
    \* PLAIN_DICTIONARY
    @@ 2 :> <<80, 76, 65, 73, 78, 95, 68, 73, 67, 84, 73, 79, 78, 65, 82, 89>>
    \* RLE
    @@ 3 :> <<82, 76, 69>>
    \* BIT_PACKED
    @@ 4 :> <<66, 73, 84, 95, 80, 65, 67, 75, 69, 68>>
    \* DELTA_BINARY_PACKED
    @@ 5 :> <<68, 69, 76, 84, 65, 95, 66, 73, 78,
              65, 82, 89, 95, 80, 65, 67, 75, 69, 68>>
    \* DELTA_LENGTH_BYTE_ARRAY
    @@ 6 :> <<68, 69, 76, 84, 65, 95, 76, 69, 78, 71, 84,
              72, 95, 66, 89, 84, 69, 95, 65, 82, 82, 65, 89>>
    \* DELTA_BYTE_ARRAY
    @@ 7 :> <<68, 69, 76, 84, 65, 95, 66, 89, 84, 69, 95, 65, 82, 82, 65, 89>>
    \* RLE_DICTIONARY
    @@ 8 :> <<82, 76, 69, 95, 68, 73, 67, 84, 73, 79, 78, 65, 82, 89>>
    \* BYTE_STREAM_SPLIT
    @@ 9 :> <<66, 89, 84, 69, 95, 83, 84, 82,
              69, 65, 77, 95, 83, 80, 76, 73, 84>>

\* CompressionCodec
CompressionCodecName ==
    \* UNCOMPRESSED
       0 :> <<85, 78, 67, 79, 77, 80, 82, 69, 83, 83, 69, 68>>
    \* SNAPPY
    @@ 1 :> <<83, 78, 65, 80, 80, 89>>
    \* GZIP
    @@ 2 :> <<71, 90, 73, 80>>
    \* LZO
    @@ 3 :> <<76, 90, 79>>
    \* BROTLI
    @@ 4 :> <<66, 82, 79, 84, 76, 73>>
    \* LZ4
    @@ 5 :> <<76, 90, 52>>
    \* ZSTD
    @@ 6 :> <<90, 83, 84, 68>>
    \* LZ4_RAW
    @@ 7 :> <<76, 90, 52, 95, 82, 65, 87>>

\* PageType
PageTypeName ==
    \* DATA_PAGE
       0 :> <<68, 65, 84, 65, 95, 80, 65, 71, 69>>
    \* INDEX_PAGE
    @@ 1 :> <<73, 78, 68, 69, 88, 95, 80, 65, 71, 69>>
    \* DICTIONARY_PAGE
    @@ 2 :> <<68, 73, 67, 84, 73, 79, 78, 65, 82, 89, 95, 80, 65, 71, 69>>
    \* DATA_PAGE_V2
    @@ 3 :> <<68, 65, 84, 65, 95, 80, 65, 71, 69, 95, 86, 50>>

----------------------------------------------------------------------------
(* C10 *)

\* the field val of the result holds the name of the enum integer raw of
\* the Thrift tree
Named(val, raw, names) ==
    raw.t = "number" => (raw.n \in DOMAIN names /\ val = JsString(names[raw.n]))

\* the items of an array, none for anything else
ItemsOf(v) == IF v.t = "array" THEN v.items ELSE <<>>

\* a schema element of the result and the Thrift struct it was made from
SchemaElementNamed(elem, raw) ==
    /\ Named(Get(elem, "type"), Get(raw, "field_1"), ParquetTypeName)
    /\ Named(Get(elem, "repetition_type"), Get(raw, "field_3"),
             FieldRepetitionTypeName)
    /\ Named(Get(elem, "converted_type"), Get(raw, "field_6"), ConvertedTypeName)

\* the meta_data of a column chunk of the result and its Thrift struct
ColumnMetaDataNamed(md, raw) ==
    /\ Named(Get(md, "type"), Get(raw, "field_1"), ParquetTypeName)
    /\ Named(Get(md, "codec"), Get(raw, "field_4"), CompressionCodecName)
    /\ \A k \in 1..Len(ItemsOf(Get(md, "encodings"))) :
          Named(ItemsOf(Get(md, "encodings"))[k],
                ItemsOf(Get(raw, "field_2"))[k], EncodingName)
    /\ \A k \in 1..Len(ItemsOf(Get(md, "encoding_stats"))) :
          /\ Named(Get(ItemsOf(Get(md, "encoding_stats"))[k], "page_type"),
                   Get(ItemsOf(Get(raw, "field_13"))[k], "field_1"), PageTypeName)
          /\ Named(Get(ItemsOf(Get(md, "encoding_stats"))[k], "encoding"),
                   Get(ItemsOf(Get(raw, "field_13"))[k], "field_2"), EncodingName)

\* C10: in the FileMetaData parquetMetadata returns for a file with its two
\* magics, the schema elements' type, repetition_type and converted_type,
\* the columns' type, encodings and codec, and the encoding_stats' page_type
\* and encoding hold the name of the enum value, not the integer read from
\* Thrift.
C10_EnumNames ==
    (mdPc = "done" /\ HeaderIsMagic) =>
        /\ \A k \in 1..Len(ItemsOf(Get(mdResult, "schema"))) :
              SchemaElementNamed(ItemsOf(Get(mdResult, "schema"))[k],
                                 ItemsOf(Get(metadata, "field_2"))[k])
        /\ \A g \in 1..Len(ItemsOf(Get(mdResult, "row_groups"))) :
              \A c \in 1..Len(ItemsOf(Get(ItemsOf(Get(mdResult, "row_groups"))[g],
                                          "columns"))) :
                 ColumnMetaDataNamed(
                     Get(ItemsOf(Get(ItemsOf(Get(mdResult, "row_groups"))[g],
                                     "columns"))[c], "meta_data"),
                     Get(ItemsOf(Get(ItemsOf(Get(metadata, "field_4"))[g],
                                     "field_1"))[c], "field_3"))

----------------------------------------------------------------------------
(* Observations of deserializeTCompactProtocol *)

\* the header byte about to be read, its high nibble and its low nibble
HeaderByte == thBuffer[thByteLength + 1]
HeaderDelta == HeaderByte \div 16
HeaderType == HeaderByte % 16

\* the unsigned LEB128 number that starts at index, and its zigzag decoding
RECURSIVE Leb128(_, _)
Leb128(v, index) ==
    (v[index + 1] % 128)
      + (IF v[index + 1] >= 128 THEN 128 * Leb128(v, index + 1) ELSE 0)

UnZigZag(n) == IF n % 2 = 0 THEN n \div 2 ELSE 0 - ((n + 1) \div 2)

\* a step that reads the header of a field (not STOP)
ReadsFieldHeader ==
    /\ thPc = "loop"
    /\ thByteLength < Len(thBuffer)
    /\ HeaderType # 0

\* the keys of the decoded object
KeysOf(obj) == DOMAIN obj.fields

\* C11: in the fields of one struct, a header with a non-zero delta yields
\* the field id lastFid + delta and a header with delta 0 yields the
\* zigzag varint that follows it; either id is the lastFid of the next
\* field, and the value of the field is stored under the key field_<id>.
C11_FieldIds ==
    [][ /\ ReadsFieldHeader =>
            /\ thPc' = "element"
            /\ HeaderDelta # 0 => thFid' = thLastFid + HeaderDelta
            /\ HeaderDelta = 0 =>
                 thFid' = UnZigZag(Leb128(thBuffer, thByteLength + 1))
            /\ thLastFid' = thFid'
        /\ (thPc = "element" /\ thPc' = "loop") =>
            /\ KeysOf(thValue') = KeysOf(thValue) \cup {FieldKey(thFid)}
            /\ thValue'.fields[FieldKey(thFid)] =
                 ReadElement(thBuffer, thType, thByteLength).value
            /\ \A k \in KeysOf(thValue) \ {FieldKey(thFid)} :
                 thValue'.fields[k] = thValue.fields[k]
            /\ thLastFid' = thFid
      ]_vars

\* an absolute id 5, then a delta of 1 from it: the fields 5 and 6
C11_Witness ==
    /\ thPc = "done"
    /\ thBuffer = <<1, 10, 17>>
    /\ KeysOf(thValue) = {"field_5", "field_6"}
    /\ thLastFid = 6

\* the value types of the compact protocol: TRUE(1) .. UUID(13)
RecognizedTypes == 1..13

\* an element of a container type whose header names an element type that
\* is not recognized or is itself a container
UnknownInside(type, index) ==
    \/ type = CompactType.STRUCT
    \/ /\ type \in {CompactType.LIST, CompactType.SET}
       /\ index < Len(thBuffer)
       /\ (thBuffer[index + 1] % 16) \notin (RecognizedTypes \ {9, 10, 11, 12})
    \/ /\ type = CompactType.MAP
       /\ index + 1 < Len(thBuffer)
       /\ \/ (thBuffer[index + 2] % 16) \notin (RecognizedTypes \ {9, 10, 11, 12})
          \/ (thBuffer[index + 2] \div 16) \notin (RecognizedTypes \ {9, 10, 11, 12})

\* C12: the decoder raises the unknown-type error for an element of type t
\* exactly when t is not one of TRUE(1) .. UUID(13); SET(10) and MAP(11)
\* elements are decoded, not rejected.
C12_WireTypes ==
    /\ (thPc = "error" /\ thError = "Unhandled type") =>
           (thType \notin RecognizedTypes \/ UnknownInside(thType, thByteLength))
    /\ (thPc = "loop" /\ thByteLength > 0) => thType \in RecognizedTypes

----------------------------------------------------------------------------
(* Observations of toVarInt and readVarInt *)

\* the first ten bytes of the view all have the continuation bit
LongVarint ==
    /\ Len(viView) >= 10
    /\ \A k \in 1..10 : viView[k] >= 128

\* C13: the read of a varint whose first ten bytes all have the continuation
\* bit ends in an error, in readVarInt and in readVarBigInt: no byte after
\* the tenth is read and no result is returned.
C13_VarintLimit ==
    LongVarint => (viIndex <= 10 /\ viPc # "done")

\* the number readVarInt returned is the number w
ResultIs(result, w) ==
    /\ w.top = 0
    /\ result >= 0
    /\ result \div 128 = w.mid
    /\ result % 128 = w.low

\* C14: for every n of [0, 2^64), readVarInt over the bytes of toVarInt(n)
\* returns n and the index after the last byte produced; 300 is the bytes
\* AC 02 and 150 the bytes 96 01.
C14_RoundTrip ==
    /\ (viPc = "done" /\ varInt # <<>>) =>
           (ResultIs(viResult, viArg) /\ viIndex = Len(varInt))
    /\ (viPc = "read" /\ viArg = WideOf(300)) => viView = <<172, 2>>
    /\ (viPc = "read" /\ viArg = WideOf(150)) => viView = <<150, 1>>

----------------------------------------------------------------------------
(* Observations of readPlain *)

\* the unsigned 96-bit number (high << 64) | low of the twelve bytes at at:
\* low the first eight bytes, high the next four, little-endian
Int96At(v, at) == JsWideBigInt(Slice(v, at, at + 12) \o <<0>>)

\* C15: readPlain of INT96 returns for each twelve bytes the unsigned 96-bit
\* integer (high << 64) | low, low being the first eight bytes and high the
\* next four, little-endian, and advances reader.offset by 12 per value.
C15_Int96 ==
    (plPc = "done" /\ plType = "INT96") =>
        /\ Len(plResult.items) = plCount
        /\ \A k \in 1..plCount :
              plResult.items[k] = Int96At(plView, plStart + 12 * (k - 1))
        /\ plOffset = plStart + 12 * plCount

\* the bytes of the values returned, one value after the other
RECURSIVE BytesOfValues(_)
BytesOfValues(items) ==
    IF items = <<>> THEN <<>> ELSE items[1].bytes \o BytesOfValues(Tail(items))

ResultBytes(result) ==
    IF result.t = "Uint8Array" THEN result.bytes ELSE BytesOfValues(result.items)

\* C16: readPlain of FIXED_LEN_BYTE_ARRAY, asked for count values of a
\* column of type_length L over a view that holds them, returns the
\* count * L bytes at reader.offset, L per value, and advances
\* reader.offset by count * L.
C16_FixedLength ==
    (/\ plPc \in {"done", "error"}
     /\ plType = "FIXED_LEN_BYTE_ARRAY"
     /\ InView(plView, plStart, plCount * plTypeLength)) =>
        /\ plPc = "done"
        /\ ResultBytes(plResult)
             = Slice(plView, plStart, plStart + plCount * plTypeLength)
        /\ plResult.t = "array" =>
             \A k \in 1..Len(plResult.items) :
                Len(plResult.items[k].bytes) = plTypeLength
        /\ plOffset = plStart + plCount * plTypeLength

----------------------------------------------------------------------------
(* The data page readers                                                   *)

\* a page whose values are in one of the two delta byte-array encodings
DeltaByteArrayPage ==
    /\ pgVersion \in {1, 2}
    /\ pgHeader.encoding \in {"DELTA_LENGTH_BYTE_ARRAY", "DELTA_BYTE_ARRAY"}

\* C17, as stated: readDataPage and readDataPageV2 reject every page whose
\* values encoding is DELTA_LENGTH_BYTE_ARRAY or DELTA_BYTE_ARRAY with the
\* unsupported-encoding error and return no page
C17_Rejected ==
    DeltaByteArrayPage =>
        /\ pgPc # "done"
        /\ pgValues = JsArray(<<>>)
        /\ pgPc = "error" => pgError = "parquet unsupported encoding"

\* C17, amended: neither reader ever returns a page or decodes a value of a
\* page whose values encoding is DELTA_LENGTH_BYTE_ARRAY or DELTA_BYTE_ARRAY;
\* once the levels of such a page are read without an error, the read of
\* the values ends in the unsupported-encoding error (an error of the level
\* stages comes first and is the one raised)
C17_RejectedAfterLevels ==
    /\ [](DeltaByteArrayPage => (pgPc # "done" /\ pgValues = JsArray(<<>>)))
    /\ [][(DeltaByteArrayPage /\ pgPc = "values") =>
            /\ pgPc' = "error"
            /\ pgError' = "parquet unsupported encoding"
            /\ pgValues' = pgValues]_vars
    /\ [][(DeltaByteArrayPage /\ pgError' = "parquet unsupported encoding") =>
            pgPc = "values"]_vars

\* a V1 page of an optional column whose definition levels 1, 0 are decoded
\* and whose DELTA_BYTE_ARRAY values are then refused
C17_Witness ==
    /\ pgVersion = 1
    /\ pgHeader.encoding = "DELTA_BYTE_ARRAY"
    /\ pgDefinitionLevels = JsArray(<<1, 0>>)
    /\ pgNumNulls = 1
    /\ pgPc = "error"
    /\ pgError = "parquet unsupported encoding"
    /\ pgValues = JsArray(<<>>)

\* the two levels-byte-length errors of readDataPageV2
LevelsByteLengthErrors ==
    {"parquet repetition levels byte length",
     "parquet definition levels byte length"}

\* reader.offset must equal this after the level stage at pc
ExpectedLevelsOffset(pc) ==
    IF pc = "repetition" THEN pgHeader.repetition_levels_byte_length
    ELSE pgHeader.repetition_levels_byte_length
           + pgHeader.definition_levels_byte_length

\* C18: a level stage of readDataPageV2 that decodes its levels ends in the
\* levels-byte-length error of that stage exactly when reader.offset, the
\* bytes consumed so far, differs from repetition_levels_byte_length (after
\* the repetition levels) or from repetition_levels_byte_length +
\* definition_levels_byte_length (after the definition levels); when it
\* matches, no such error is raised and the reader goes on; after such an
\* error no value is decoded
C18_LevelsByteLength ==
    /\ [][(pgVersion = 2 /\ pgPc \in {"repetition", "definition"}
             /\ pgError' \in LevelsByteLengthErrors \cup {""}) =>
            /\ (pgOffset' # ExpectedLevelsOffset(pgPc)) <=>
                 (pgPc' = "error" /\ pgError' =
                    (IF pgPc = "repetition"
                     THEN "parquet repetition levels byte length"
                     ELSE "parquet definition levels byte length"))
            /\ (pgOffset' = ExpectedLevelsOffset(pgPc)) <=>
                 (pgPc' = (IF pgPc = "repetition" THEN "definition" ELSE "values")
                    /\ pgError' = "")]_vars
    /\ [](pgError \in LevelsByteLengthErrors =>
            (pgPc = "error" /\ pgValues = JsArray(<<>>) /\ pgDecompressed = <<>>))

\* a column without repetition levels takes no byte, as the header declares;
\* its definition levels then consume no byte where the header declares two
C18_Witness ==
    /\ pgVersion = 2
    /\ pgColumn.maxRepetitionLevel = 0
    /\ pgColumn.maxDefinitionLevel = 1
    /\ pgHeader.repetition_levels_byte_length = 0
    /\ pgHeader.definition_levels_byte_length = 2
    /\ pgRepetitionLevels = JsArray(<<>>)
    /\ pgOffset = 0
    /\ pgPc = "error"
    /\ pgError = "parquet definition levels byte length"
    /\ pgValues = JsArray(<<>>)

----------------------------------------------------------------------------
(* The runs of the RLE / bit-packed hybrid                                  *)

\* the count of groups of eight values a bit-packed header declares
RunGroups == rnHeader \div 2

\* bit j of the bytes of the run, LSB-first across byte boundaries
RunStreamBit(j) == (rnView[rnStart + 1 + (j \div 8)] \div Pow2(j % 8)) % 2

\* bit j of the non-negative number x below 2^31
NumberBit(x, j) == IF j >= 31 THEN 0 ELSE (x \div Pow2(j)) % 2

\* the number x is the unsigned integer of the w bits from bit k * w of the
\* run's bytes
IsPackedValue(x, k, w) ==
    /\ x >= 0
    /\ \A j \in 0..(w - 1) : NumberBit(x, j) = RunStreamBit(k * w + j)
    /\ w < 31 => x < Pow2(w)

\* a call of readBitPacked for a run of at least one group, over a view
\* that holds the bytes of the run, by a caller that wants all its values
BitPackedCall ==
    /\ rnKind = "bitpacked"
    /\ rnBitWidth \in 1..32
    /\ RunGroups >= 1
    /\ Len(rnView) - rnStart >= RunGroups * rnBitWidth
    /\ rnRemaining >= RunGroups * 8

\* C19: a bit-packed run with header h at bit width w in 1..32 yields
\* (h >> 1) * 8 values, value k being bits [k * w, (k + 1) * w) of the run's
\* bytes taken LSB-first, and consumes exactly (h >> 1) * w bytes
C19_BitPackedRun ==
    (BitPackedCall /\ rnPc \in {"done", "error"}) =>
        /\ rnPc = "done"
        /\ Len(rnValue) = RunGroups * 8
        /\ \A k \in 1..Len(rnValue) :
              IsPackedValue(rnValue[k], k - 1, rnBitWidth)
        /\ rnOffset = rnStart + RunGroups * rnBitWidth

\* the bytes an RLE value takes at bit width w
RleValueBytes(w) ==
    IF w = 0 THEN 0 ELSE IF w <= 8 THEN 1 ELSE IF w <= 16 THEN 2 ELSE 4

\* the little-endian unsigned integer of the n bytes from off
LittleEndian(v, off, n) ==
    IF n = 0 THEN 0
    ELSE IF n = 1 THEN GetUint8(v, off)
    ELSE IF n = 2 THEN GetUint16(v, off)
    ELSE GetUint32(v, off)

\* a call of readRle over a view that holds the bytes of the value
RleCall ==
    /\ rnKind = "rle"
    /\ rnBitWidth \in 0..32
    /\ Len(rnView) - rnStart >= RleValueBytes(rnBitWidth)

\* C20: an RLE run with header h at bit width w emits h >> 1 copies of the
\* little-endian unsigned integer of 0 bytes (w = 0), 1 byte (w in 1..8),
\* 2 bytes (w in 9..16) or 4 bytes (w in 17..32), advancing the reader by
\* that many bytes; for w = 0 it emits h >> 1 zeros without an error
C20_RleRun ==
    (RleCall /\ rnPc \in {"done", "error"}) =>
        /\ rnPc = "done"
        /\ rnValue = Repeat(LittleEndian(rnView, rnStart, RleValueBytes(rnBitWidth)),
                            rnHeader \div 2)
        /\ rnOffset = rnStart + RleValueBytes(rnBitWidth)

----------------------------------------------------------------------------
(* deltaBinaryUnpack of delta.js *)

\* blockSize / miniblockPerBlock
ValuesPerMiniblock == dlBlockSize \div dlMiniblockPerBlock

\* the four reads of the header
DeltaHeaderFirst(v, a, b, c) ==
    LET d == ReaderZigZagBigInt(v, c.index)
    IN IF ~d.ok THEN d
       ELSE [ok |-> TRUE, blockSize |-> a.result, miniblockPerBlock |-> b.result,
             value |-> d.value, offset |-> d.index]

DeltaHeaderCount(v, a, b) ==
    LET c == ReaderVarInt(v, b.index)
    IN IF ~c.ok THEN c ELSE DeltaHeaderFirst(v, a, b, c)

DeltaHeaderMiniblocks(v, a) ==
    LET b == ReaderVarInt(v, a.index)
    IN IF ~b.ok THEN b ELSE DeltaHeaderCount(v, a, b)

DeltaHeader(v, off) ==
    LET a == ReaderVarInt(v, off)
    IN IF ~a.ok THEN a ELSE DeltaHeaderMiniblocks(v, a)

\* a carry loop that moves to the next byte without taking its bits
RECURSIVE DeltaCarryDropped(_, _, _, _, _)
DeltaCarryDropped(v, off, bitWidth, bitpackPos, bits) ==
    IF bitpackPos < 8
    THEN [ok |-> TRUE, bits |-> bits, offset |-> off, bitpackPos |-> bitpackPos]
    ELSE DeltaCarryDropped(v, off + 1, bitWidth, bitpackPos - 8, bits)

\* the inner loop `while (bitpackPos >= 8)`: moves to the next byte and takes
\* the bits of the value that lie in it
RECURSIVE DeltaCarry(_, _, _, _, _)
DeltaCarry(v, off, bitWidth, bitpackPos, bits) ==
    IF bitpackPos < 8
    THEN [ok |-> TRUE, bits |-> bits, offset |-> off, bitpackPos |-> bitpackPos]
    ELSE IF bitpackPos - 8 = 0
    THEN DeltaCarry(v, off + 1, bitWidth, 0, bits)
    ELSE IF ~InView(v, off + 1, 1) THEN Thrown("RangeError")
    ELSE DeltaCarry(v, off + 1, bitWidth, bitpackPos - 8,
                    BitOrNat(bits,
                             (GetUint8(v, off + 1) * Pow2(bitWidth - (bitpackPos - 8)))
                               % Pow2(bitWidth)))

\* one value of a miniblock: the bits of the current byte, then the carry
DeltaBits(v, off, bitWidth, bitpackPos) ==
    IF ~InView(v, off, 1) THEN Thrown("RangeError")
    ELSE DeltaCarry(v, off, bitWidth, bitpackPos + bitWidth,
                    (GetUint8(v, off) \div Pow2(bitpackPos)) % Pow2(bitWidth))

\* a miniblock of bit width zero: every value adds minDelta
DeltaZeroWidth(val, minDelta, n) == [j \in 1..n |-> val + j * minDelta]

DlThrow(msg) ==
    /\ dlPc' = "error"
    /\ dlError' = msg
    /\ UNCHANGED <<dlStream, dlView, dlOffset, dlNValues, dlOutput, dlOutputIndex,
                   dlValue, dlBlockSize, dlMiniblockPerBlock, dlMinDelta,
                   dlBitWidths, dlI, dlMiniblockCount, dlBitpackPos, dlBlocksRead>>

\* the header and the first value; output has nValues elements, the write of
\* output[0] is dropped when it has none
DlHeader ==
    /\ dlPc = "call"
    /\ LET h == DeltaHeader(dlView, dlOffset)
       IN IF ~h.ok THEN DlThrow(h.err)
          ELSE /\ dlBlockSize' = h.blockSize
               /\ dlMiniblockPerBlock' = h.miniblockPerBlock
               /\ dlValue' = h.value
               /\ dlOffset' = h.offset
               /\ dlOutput' = IF dlNValues >= 1 THEN <<h.value>> ELSE <<>>
               /\ dlOutputIndex' = 1
               /\ dlPc' = "block"
               /\ UNCHANGED <<dlStream, dlView, dlNValues, dlMinDelta, dlBitWidths,
                              dlI, dlMiniblockCount, dlBitpackPos, dlBlocksRead,
                              dlError>>
    /\ UNCHANGED <<asmVars, rleVars, mdVars, thVars, viVars, plVars, pgVars, rnVars,
                   d2Vars, wkVars>>

\* `while (outputIndex < nValues)`: minDelta and the bit widths of a block
DlBlock ==
    /\ dlPc = "block"
    /\ IF dlOutputIndex >= dlNValues
       THEN /\ dlPc' = "done"
            /\ UNCHANGED <<dlStream, dlView, dlOffset, dlNValues, dlOutput,
                           dlOutputIndex, dlValue, dlBlockSize, dlMiniblockPerBlock,
                           dlMinDelta, dlBitWidths, dlI, dlMiniblockCount,
                           dlBitpackPos, dlBlocksRead, dlError>>
       ELSE LET m == ReaderZigZagBigInt(dlView, dlOffset)
            IN IF ~m.ok THEN DlThrow(m.err)
               ELSE IF ~InView(dlView, m.index, dlMiniblockPerBlock)
               THEN DlThrow("RangeError")
               ELSE /\ dlMinDelta' = m.value
                    /\ dlBitWidths' = [k \in 1..dlMiniblockPerBlock |->
                                         GetUint8(dlView, m.index + k - 1)]
                    /\ dlOffset' = m.index + dlMiniblockPerBlock
                    /\ dlI' = 0
                    /\ dlBlocksRead' = dlBlocksRead + 1
                    /\ dlPc' = "miniblock"
                    /\ UNCHANGED <<dlStream, dlView, dlNValues, dlOutput,
                                   dlOutputIndex, dlValue, dlBlockSize,
                                   dlMiniblockPerBlock, dlMiniblockCount,
                                   dlBitpackPos, dlError>>
    /\ UNCHANGED <<asmVars, rleVars, mdVars, thVars, viVars, plVars, pgVars, rnVars,
                   d2Vars, wkVars>>

\* `for (i < miniblockPerBlock && outputIndex < nValues)`: a miniblock of
\* width zero is decoded whole, one of another width starts its value loop
DlMiniblock ==
    /\ dlPc = "miniblock"
    /\ IF dlI < dlMiniblockPerBlock /\ dlOutputIndex < dlNValues
       THEN IF dlBitWidths[dlI + 1] # 0
            THEN /\ dlBitpackPos' = 0
                 /\ dlMiniblockCount' = ValuesPerMiniblock
                 /\ dlPc' = "bits"
                 /\ UNCHANGED <<dlOutput, dlOutputIndex, dlValue, dlI>>
            ELSE LET n == Min(ValuesPerMiniblock, dlNValues - dlOutputIndex)
                 IN /\ dlOutput' = dlOutput \o DeltaZeroWidth(dlValue, dlMinDelta, n)
                    /\ dlValue' = dlValue + n * dlMinDelta
                    /\ dlOutputIndex' = dlOutputIndex + n
                    /\ dlI' = dlI + 1
                    /\ UNCHANGED <<dlBitpackPos, dlMiniblockCount, dlPc>>
       ELSE /\ dlPc' = "block"
            /\ UNCHANGED <<dlOutput, dlOutputIndex, dlValue, dlI, dlBitpackPos,
                           dlMiniblockCount>>
    /\ UNCHANGED <<dlStream, dlView, dlOffset, dlNValues, dlBlockSize,
                   dlMiniblockPerBlock, dlMinDelta, dlBitWidths, dlBlocksRead,
                   dlError>>
    /\ UNCHANGED <<asmVars, rleVars, mdVars, thVars, viVars, plVars, pgVars, rnVars,
                   d2Vars, wkVars>>

\* `while (miniblockCount && outputIndex < nValues)`: one value
DlValue ==
    /\ dlPc = "bits"
    /\ dlMiniblockCount # 0 /\ dlOutputIndex < dlNValues
    /\ LET r == DeltaBits(dlView, dlOffset, dlBitWidths[dlI + 1], dlBitpackPos)
       IN IF ~r.ok THEN DlThrow(r.err)
          ELSE /\ dlValue' = dlValue + dlMinDelta + r.bits
               /\ dlOutput' = Append(dlOutput, dlValue + dlMinDelta + r.bits)
               /\ dlOutputIndex' = dlOutputIndex + 1
               /\ dlMiniblockCount' = dlMiniblockCount - 1
               /\ dlOffset' = r.offset
               /\ dlBitpackPos' = r.bitpackPos
               /\ UNCHANGED <<dlStream, dlView, dlNValues, dlBlockSize,
                              dlMiniblockPerBlock, dlMinDelta, dlBitWidths, dlI,
                              dlBlocksRead, dlPc, dlError>>
    /\ UNCHANGED <<asmVars, rleVars, mdVars, thVars, viVars, plVars, pgVars, rnVars,
                   d2Vars, wkVars>>

\* the end of the value loop: `if (miniblockCount)` skips what is left of
\* the miniblock
DlMiniblockEnd ==
    /\ dlPc = "bits"
    /\ ~(dlMiniblockCount # 0 /\ dlOutputIndex < dlNValues)
    /\ dlOffset' = IF dlMiniblockCount # 0
                   THEN dlOffset + CeilDiv8(dlMiniblockCount * dlBitWidths[dlI + 1]
                                              + dlBitpackPos)
                   ELSE dlOffset
    /\ dlI' = dlI + 1
    /\ dlPc' = "miniblock"
    /\ UNCHANGED <<dlStream, dlView, dlNValues, dlOutput, dlOutputIndex, dlValue,
                   dlBlockSize, dlMiniblockPerBlock, dlMinDelta, dlBitWidths,
                   dlMiniblockCount, dlBitpackPos, dlBlocksRead, dlError>>
    /\ UNCHANGED <<asmVars, rleVars, mdVars, thVars, viVars, plVars, pgVars, rnVars,
                   d2Vars, wkVars>>

(* The streams deltaBinaryUnpack is called on: the encoding of a first value
   and of blocks of deltas, every miniblock of a block present in the stream. *)

\* toVarInt: the unsigned LEB128 bytes of a number
RECURSIVE VarIntBytes(_)
VarIntBytes(n) ==
    IF n < 128 THEN <<n>> ELSE <<128 + (n % 128)>> \o VarIntBytes(n \div 128)

ZigZagEncode(n) == IF n >= 0 THEN 2 * n ELSE (0 - 2 * n) - 1

\* bit j of the deltas ds packed LSB-first at width w, 0 after the last delta
PackedBit(ds, w, j) ==
    IF j \div w + 1 > Len(ds) THEN 0 ELSE (ds[j \div w + 1] \div Pow2(j % w)) % 2

PackedByte(ds, w, b) ==
    PackedBit(ds, w, 8 * b) + 2 * PackedBit(ds, w, 8 * b + 1)
      + 4 * PackedBit(ds, w, 8 * b + 2) + 8 * PackedBit(ds, w, 8 * b + 3)
      + 16 * PackedBit(ds, w, 8 * b + 4) + 32 * PackedBit(ds, w, 8 * b + 5)
      + 64 * PackedBit(ds, w, 8 * b + 6) + 128 * PackedBit(ds, w, 8 * b + 7)

\* the bytes of a miniblock: none when its width is zero
MiniblockBytes(ds, w) ==
    IF w = 0 THEN <<>>
    ELSE [b \in 1..CeilDiv8(Len(ds) * w) |-> PackedByte(ds, w, b - 1)]

\* the deltas of miniblock m (from 1) of a block
MiniblockDeltas(s, blk, m) ==
    SubSeq(blk.deltas, (m - 1) * (s.blockSize \div s.miniblockPerBlock) + 1,
           m * (s.blockSize \div s.miniblockPerBlock))

BlockBytes(s, blk) ==
    VarIntBytes(ZigZagEncode(blk.minDelta)) \o blk.widths
      \o Flatten([m \in 1..s.miniblockPerBlock |->
                    MiniblockBytes(MiniblockDeltas(s, blk, m), blk.widths[m])])

StreamHeaderBytes(s, count) ==
    VarIntBytes(s.blockSize) \o VarIntBytes(s.miniblockPerBlock)
      \o VarIntBytes(count) \o VarIntBytes(ZigZagEncode(s.first))

StreamBytes(s, count) ==
    StreamHeaderBytes(s, count)
      \o Flatten([b \in 1..Len(s.blocks) |-> BlockBytes(s, s.blocks[b])])

MaxDeltaBlocks == 2       \* most blocks of an enumerated stream
DeltaWidths == {0, 1, 3, 12}

\* the k-th delta (from 0) of a miniblock of width w
DeltaPattern(p, w, k) ==
    IF w = 0 THEN 0
    ELSE IF p = "high" THEN Pow2(w) - 1
    ELSE (5 * k + 3) % Pow2(w)

\* block b of a stream of two miniblocks of eight values: the widths swap
\* and minDelta changes sign from one block to the next
PatternBlock(p, w1, w2, minDelta, b) ==
    LET ws == IF b % 2 = 1 THEN <<w1, w2>> ELSE <<w2, w1>>
    IN [minDelta |-> IF b % 2 = 1 THEN minDelta ELSE 0 - minDelta,
        widths |-> ws,
        deltas |-> [k \in 1..16 |-> DeltaPattern(p, ws[(k - 1) \div 8 + 1], k - 1)]]

PatternStream(p, w1, w2, first, minDelta, nb) ==
    [blockSize |-> 16, miniblockPerBlock |-> 2, first |-> first,
     blocks |-> [b \in 1..nb |-> PatternBlock(p, w1, w2, minDelta, b)]]

\* the sequence 1, 2, ..., 10 with blockSize 128 and 4 miniblocks
OneToTenStream ==
    [blockSize |-> 128, miniblockPerBlock |-> 4, first |-> 1,
     blocks |-> << [minDelta |-> 1, widths |-> <<0, 0, 0, 0>>,
                    deltas |-> [k \in 1..128 |-> 0]] >>]

\* how many values a stream holds
StreamValues(s) == 1 + Len(s.blocks) * s.blockSize

DlStart(s, count, n) ==
    /\ dlStream = s
    /\ dlView = StreamBytes(s, count)
    /\ dlOffset = 0
    /\ dlNValues = n
    /\ dlOutput = <<>>
    /\ dlOutputIndex = 0
    /\ dlValue = 0
    /\ dlBlockSize = 0
    /\ dlMiniblockPerBlock = 0
    /\ dlMinDelta = 0
    /\ dlBitWidths = <<>>
    /\ dlI = 0
    /\ dlMiniblockCount = 0
    /\ dlBitpackPos = 0
    /\ dlBlocksRead = 0
    /\ dlPc = "call"
    /\ dlError = ""

DlInit ==
    \/ DlStart(OneToTenStream, 10, 10)
    \/ \E p \in {"high", "mixed"}, w1 \in DeltaWidths, w2 \in DeltaWidths,
          first \in {0 - 7, 1}, minDelta \in {0 - 3, 2}, nb \in 1..MaxDeltaBlocks :
          \E n \in 0..StreamValues(PatternStream(p, w1, w2, first, minDelta, nb)) :
             DlStart(PatternStream(p, w1, w2, first, minDelta, nb), n, n)

InitDelta ==
    DlInit /\ AsmIdle /\ RleIdle /\ MdIdle /\ ThIdle /\ ViIdle /\ PlIdle
    /\ PgIdle /\ RnIdle /\ D2Idle /\ WkIdle

NextDelta == DlHeader \/ DlBlock \/ DlMiniblock \/ DlValue \/ DlMiniblockEnd

SpecDelta == InitDelta /\ [][NextDelta]_vars

----------------------------------------------------------------------------
(* Claims on deltaBinaryUnpack of delta.js *)

\* what the stream adds to value k (from 0) to give value k + 1: minDelta of
\* its block plus the delta packed for it
StreamDelta(s, k) ==
    s.blocks[k \div s.blockSize + 1].minDelta
      + s.blocks[k \div s.blockSize + 1].deltas[(k % s.blockSize) + 1]

\* C21: deltaBinaryUnpack of delta.js never fails on a well-formed stream; the
\* first element it writes is firstValue, every further element is its
\* predecessor plus minDelta of its block plus its delta, unpacked LSB-first at
\* the width of its miniblock (0 at width zero); when it returns it has
\* written exactly nValues elements, and the encoding of 1..10 with blockSize
\* 128 and 4 miniblocks decodes to 1..10.
C21_DeltaValues ==
    dlPc \notin {"idle", "call"} =>
        /\ dlPc # "error"
        /\ Len(dlOutput) <= dlNValues
        /\ dlNValues >= 1 => Len(dlOutput) >= 1 /\ dlOutput[1] = dlStream.first
        /\ \A k \in 1..(Len(dlOutput) - 1) :
              dlOutput[k + 1] = dlOutput[k] + StreamDelta(dlStream, k - 1)
        /\ dlPc = "done" => Len(dlOutput) = dlNValues
        /\ dlPc = "done" /\ dlStream = OneToTenStream => dlOutput = Iota(10)

\* a stream of two blocks whose miniblocks have the widths 3, 12 and 12, 3,
\* decoded to its last value
C21_Witness ==
    /\ dlPc = "done"
    /\ dlStream = PatternStream("mixed", 3, 12, 1, 2, 2)
    /\ dlNValues = 33
    /\ Len(dlOutput) = 33
    /\ dlOutput[2] = 6 /\ dlOutput[9] = 45 /\ dlOutput[10] = 90

\* the offset of the end of block b (from 1) of the stream in the view
BlockEnd(s, count, b) ==
    Len(StreamBytes([s EXCEPT !.blocks = SubSeq(s.blocks, 1, b)], count))

\* C22: when deltaBinaryUnpack of delta.js returns after reading a block, the
\* reader offset is the end of the last block it read, every miniblock of
\* that block skipped whole.
C22_OffsetAtBlockEnd ==
    dlPc = "done" /\ dlBlocksRead >= 1 =>
        dlOffset = BlockEnd(dlStream, dlNValues, dlBlocksRead)

----------------------------------------------------------------------------
(* Claims on the data pages returned *)

\* the length of an array, -1 for what is not an array
LengthOf(a) == IF a.t = "array" THEN Len(a.items) ELSE 0 - 1

\* readDataPage has returned the page of a column that has definition levels
V1PageWithLevels ==
    /\ pgVersion = 1
    /\ pgPc = "done"
    /\ pgColumn.maxDefinitionLevel > 0

\* C23: the page readDataPage returns for a column of max definition level
\* above 0 has num_values definition levels, num_values repetition levels
\* when the column is repeated, and num_values minus the number of levels
\* below the max definition level values, also when no value is null.
C23_Lengths ==
    V1PageWithLevels =>
        /\ LengthOf(pgDefinitionLevels) = pgHeader.num_values
        /\ pgColumn.maxRepetitionLevel > 0 =>
              LengthOf(pgRepetitionLevels) = pgHeader.num_values
        /\ LengthOf(pgValues) = pgHeader.num_values - pgNumNulls

\* the values stage of readDataPage is about to read indices: the encoding
\* is a dictionary or RLE one, the column is not a BOOLEAN one (whose bit
\* width is not read from the page) and the byte of the bit width is in the
\* page
V1IndexStage ==
    /\ pgVersion = 1
    /\ pgPc = "values"
    /\ pgColumn.type # "BOOLEAN"
    /\ pgHeader.encoding \in {"PLAIN_DICTIONARY", "RLE_DICTIONARY", "RLE"}
    /\ InView(pgBytes, pgOffset, 1)
    /\ GetUint8(pgBytes, pgOffset) # 0

\* the runs of the bytes that follow the bit width, read to the end of the
\* page with no length before them
IndexStream ==
    HybridValues(HybridRuns(pgBytes, pgOffset + 1, pgOffset + 1,
                            GetUint8(pgBytes, pgOffset),
                            Len(pgBytes) - (pgOffset + 1),
                            pgHeader.num_values - pgNumNulls, <<>>))

\* C24: the values stage of readDataPage, for a dictionary or RLE encoding,
\* returns the runs of the bytes between the 1-byte bit width and the end of
\* the page, read with no length prefix; when no byte follows the bit width
\* it returns no value and no error.
C24_NoLengthPrefix ==
    [][V1IndexStage =>
         IF IndexStream.ok
         THEN pgPc' = "done" /\ pgValues' = IndexStream.value
         ELSE pgPc' = "error"]_vars

\* a call of decompressPage that hands its bytes to a decompressor
InvokesDecompressor(call) ==
    call.codec # "UNCOMPRESSED" /\ call.codec \in pgCompressors

\* the values section of a V2 page: what follows the level bytes
ValuesSection ==
    Slice(pgBytes,
          pgHeader.repetition_levels_byte_length
            + pgHeader.definition_levels_byte_length, Len(pgBytes))

\* C25: readDataPageV2 hands bytes to the decompressor of the column only
\* when is_compressed is true, and then it hands it the values section, the
\* bytes after the repetition and definition level bytes, for every supported
\* encoding.
C25_Decompression ==
    pgVersion = 2 =>
        \A k \in DOMAIN pgDecompressed :
            InvokesDecompressor(pgDecompressed[k]) =>
                /\ pgHeader.is_compressed
                /\ pgDecompressed[k].bytes = ValuesSection

----------------------------------------------------------------------------
(* Claims on the bounds of the reads *)

\* C26: a call of readPlain that decodes at least one value and returns has
\* read no byte outside the view of its reader, whatever follows the view in
\* the underlying buffer: when the values extend past the end of the view the
\* call fails.
C26_BoundsChecked ==
    plPc = "done" /\ plCount > 0 => plOffset <= Len(plView)

----------------------------------------------------------------------------
(* Claims on the edge cases and the container stack of assembleObjects *)

\* array id of the heap is d empty lists nested in one another: [] for
\* d = 0, [[]] for d = 1, ...
RECURSIVE NestedEmptyLists(_, _, _)
NestedEmptyLists(h, id, d) ==
    IF d = 0 THEN h[id] = <<>>
    ELSE /\ Len(h[id]) = 1
         /\ h[id][1].t = "list"
         /\ NestedEmptyLists(h, h[id][1].x, d - 1)

\* assembleObjects has returned from a call with no levels
NoRowsReturned == asmPc = "done" /\ repetitionLevels = <<>>

\* C27: called with empty level sequences, assembleObjects returns [V] when
\* maxRepetitionLevel = 0 and V is not empty, and maxDefinitionLevel empty
\* lists nested in the output when V is empty ([] for maxDefinitionLevel 0).
C27_NoRows ==
    NoRowsReturned =>
        /\ (maxRepetitionLevel = 0 /\ Len(values) > 0) =>
              /\ Len(heap[asmResult]) = 1
              /\ heap[asmResult][1].t = "list"
              /\ heap[heap[asmResult][1].x] =
                    [k \in 1..Len(values) |-> ValItem(values[k])]
        /\ Len(values) = 0 =>
              /\ asmResult = output
              /\ NestedEmptyLists(heap, asmResult, maxDefinitionLevel)
        /\ (TheCall = AsmCall(<<>>, <<>>, <<>>, FALSE, 0, 0)) =>
              Show(heap, asmResult) = "[]"

\* no levels, no values and maxDefinitionLevel 2: [[[]]] is returned
C27_Witness ==
    /\ NoRowsReturned
    /\ values = <<>>
    /\ maxDefinitionLevel = 2
    /\ Show(heap, asmResult) = "[[[]]]"

\* C28: in every state of the main loop of assembleObjects the container
\* stack is not empty, its bottom is the output list, every container of the
\* stack is the last item of the one below it, and the current container is
\* its top; the bottom stays in place after the loop too.
C28_ContainerStack ==
    asmPc \in {"loop", "done"} =>
        /\ Len(containerStack) >= 1
        /\ containerStack[1] = output
        /\ asmPc = "loop" =>
              /\ currentContainer = Last(containerStack)
              /\ \A k \in 1..(Len(containerStack) - 1) :
                    /\ heap[containerStack[k]] # <<>>
                    /\ Last(heap[containerStack[k]]) = ListItem(containerStack[k + 1])

\* levels that start above 0 and exceed maxRepetitionLevel, after the entry
\* of level 0 that moved back to the root
C28_Witness ==
    /\ asmPc = "loop"
    /\ TheCall = TestIrregularLevels
    /\ i = 2
    /\ Len(containerStack) = 3

----------------------------------------------------------------------------
(* deltaBinaryUnpack of datapageV2.js, one loop iteration per step. It is  *)
(* what readDataPageV2 calls for DELTA_BINARY_PACKED, on the page and on   *)
(* the empty dataPage it returns afterwards.                               *)

MaxPushed == 2            \* most values of the loop `while (count)` kept

D2Throw(msg) ==
    /\ d2Pc' = "error"
    /\ d2Error' = msg
    /\ UNCHANGED <<d2Page, d2NValues, d2Values, d2Offset, d2Head, d2Value,
                   d2ValueIndex, d2MinDelta, d2BitWidths, d2I, d2Data, d2Stop,
                   d2Spin>>

\* the header, one read per step: blockSize, miniblockPerBlock and count
\* by readVarInt, then the first value by readZigZag
D2ReadHeader ==
    /\ d2Pc \in {"call", "miniblocks", "count"}
    /\ LET r == ReaderVarInt(d2Page, d2Offset)
       IN IF ~r.ok THEN D2Throw(r.err)
          ELSE /\ d2Head' = CASE d2Pc = "call" -> [d2Head EXCEPT !.blockSize = r.result]
                              [] d2Pc = "miniblocks" ->
                                    [d2Head EXCEPT !.miniblockPerBlock = r.result]
                              [] OTHER -> [d2Head EXCEPT !.count = r.result]
               /\ d2Offset' = r.index
               /\ d2Pc' = CASE d2Pc = "call" -> "miniblocks"
                            [] d2Pc = "miniblocks" -> "count"
                            [] OTHER -> "first"
               /\ UNCHANGED <<d2Page, d2NValues, d2Values, d2Value, d2ValueIndex,
                              d2MinDelta, d2BitWidths, d2I, d2Data, d2Stop, d2Spin,
                              d2Error>>
    /\ UNCHANGED <<asmVars, rleVars, mdVars, thVars, viVars, plVars, pgVars, rnVars,
                   dlVars, wkVars>>

D2ReadFirst ==
    /\ d2Pc = "first"
    /\ LET r == ReaderZigZag(d2Page, d2Offset)
       IN IF ~r.ok THEN D2Throw(r.err)
          ELSE /\ d2Value' = r.value
               /\ d2Offset' = r.index
               /\ d2Pc' = "block"
               /\ UNCHANGED <<d2Page, d2NValues, d2Values, d2Head, d2ValueIndex,
                              d2MinDelta, d2BitWidths, d2I, d2Data, d2Stop, d2Spin,
                              d2Error>>
    /\ UNCHANGED <<asmVars, rleVars, mdVars, thVars, viVars, plVars, pgVars, rnVars,
                   dlVars, wkVars>>

\* `for (let valueIndex = 0; valueIndex < nValues;)`: the head of a block,
\* or the return
D2Block ==
    /\ d2Pc = "block"
    /\ IF d2ValueIndex >= d2NValues
       THEN /\ d2Pc' = "done"
            /\ UNCHANGED <<d2Page, d2NValues, d2Values, d2Offset, d2Head, d2Value,
                           d2ValueIndex, d2MinDelta, d2BitWidths, d2I, d2Data,
                           d2Stop, d2Spin, d2Error>>
       ELSE LET b == D2BlockHead(d2Page, d2Offset, d2Head.miniblockPerBlock)
            IN IF ~b.ok THEN D2Throw(b.err)
               ELSE /\ d2MinDelta' = b.minDelta
                    /\ d2BitWidths' = b.bitWidths
                    /\ d2Offset' = b.offset
                    /\ d2I' = 0
                    /\ d2Pc' = "miniblock"
                    /\ UNCHANGED <<d2Page, d2NValues, d2Values, d2Head, d2Value,
                                   d2ValueIndex, d2Data, d2Stop, d2Spin, d2Error>>
    /\ UNCHANGED <<asmVars, rleVars, mdVars, thVars, viVars, plVars, pgVars, rnVars,
                   dlVars, wkVars>>

\* `for (let i = 0; i < miniblockPerBlock; i++)`: a miniblock of width zero
\* is written whole; one of another width enters `while (count)` when
\* count > 1 and is passed over otherwise
D2Miniblock ==
    /\ d2Pc = "miniblock"
    /\ IF d2I >= d2Head.miniblockPerBlock
       THEN /\ d2Pc' = "block"
            /\ UNCHANGED <<d2Values, d2Value, d2ValueIndex, d2I, d2Data, d2Stop>>
       ELSE IF d2BitWidths[d2I + 1] # 0
       THEN IF d2Head.count > 1
            THEN /\ d2Data' = 0
                 /\ d2Stop' = 0 - d2BitWidths[d2I + 1]
                 /\ d2Pc' = "bits"
                 /\ UNCHANGED <<d2Values, d2Value, d2ValueIndex, d2I>>
            ELSE /\ d2I' = d2I + 1
                 /\ UNCHANGED <<d2Values, d2Value, d2ValueIndex, d2Data, d2Stop, d2Pc>>
       ELSE LET n == Min(D2ValuesPerMiniblock(d2Head), d2NValues - d2ValueIndex)
            IN /\ d2Values' = d2Values \o D2ZeroWidth(d2Value, d2MinDelta, n)
               /\ d2Value' = d2Value + n * d2MinDelta
               /\ d2ValueIndex' = d2ValueIndex + n
               /\ d2I' = d2I + 1
               /\ UNCHANGED <<d2Data, d2Stop, d2Pc>>
    /\ UNCHANGED <<d2Page, d2NValues, d2Offset, d2Head, d2MinDelta, d2BitWidths,
                   d2Spin, d2Error>>
    /\ UNCHANGED <<asmVars, rleVars, mdVars, thVars, viVars, plVars, pgVars, rnVars,
                   dlVars, wkVars>>

\* `while (count)` with stop < 0: data = (data << 8) | view.getUint8(...)
D2ReadByte ==
    /\ d2Pc = "bits"
    /\ d2Head.count # 0
    /\ d2Stop < 0
    /\ IF ~InView(d2Page, d2Offset, 1) THEN D2Throw("RangeError")
       ELSE /\ d2Data' = Or32(Shl32(d2Data, 8), GetUint8(d2Page, d2Offset))
            /\ d2Offset' = d2Offset + 1
            /\ d2Stop' = d2Stop + 8
            /\ UNCHANGED <<d2Page, d2NValues, d2Values, d2Head, d2Value,
                           d2ValueIndex, d2MinDelta, d2BitWidths, d2I, d2Spin,
                           d2Pc, d2Error>>
    /\ UNCHANGED <<asmVars, rleVars, mdVars, thVars, viVars, plVars, pgVars, rnVars,
                   dlVars, wkVars>>

\* `while (count)` with stop >= 0: values.push((data >> stop) & mask); count,
\* stop and data stay as they are. The first MaxPushed values pushed are
\* kept, of the following ones their parity only.
D2Push ==
    /\ d2Pc = "bits"
    /\ d2Head.count # 0
    /\ d2Stop >= 0
    /\ IF Len(d2Values) < d2ValueIndex + MaxPushed
       THEN /\ d2Values' = Append(d2Values,
                                  And32(Sar32(d2Data, d2Stop),
                                        MaskForBits(d2BitWidths[d2I + 1])))
            /\ UNCHANGED d2Spin
       ELSE /\ d2Spin' = 1 - d2Spin
            /\ UNCHANGED d2Values
    /\ UNCHANGED <<d2Page, d2NValues, d2Offset, d2Head, d2Value, d2ValueIndex,
                   d2MinDelta, d2BitWidths, d2I, d2Data, d2Stop, d2Pc, d2Error>>
    /\ UNCHANGED <<asmVars, rleVars, mdVars, thVars, viVars, plVars, pgVars, rnVars,
                   dlVars, wkVars>>

\* a stream of one value: the header and no block
SingleValueStream ==
    [blockSize |-> 128, miniblockPerBlock |-> 4, first |-> 7, blocks |-> <<>>]

D2Start(s, count, n) ==
    /\ d2Page = StreamBytes(s, count)
    /\ d2NValues = n
    /\ d2Values = <<>>
    /\ d2Offset = 0
    /\ d2Head = NoHead
    /\ d2Value = 0
    /\ d2ValueIndex = 0
    /\ d2MinDelta = 0
    /\ d2BitWidths = <<>>
    /\ d2I = 0
    /\ d2Data = 0
    /\ d2Stop = 0
    /\ d2Spin = 0
    /\ d2Pc = "call"
    /\ d2Error = ""

\* well-formed streams, each read for the number of values of its header
D2Init ==
    \/ D2Start(OneToTenStream, 10, 10)
    \/ D2Start(SingleValueStream, 1, 1)
    \/ \E w1 \in DeltaWidths, w2 \in DeltaWidths, minDelta \in {0 - 3, 2},
          nb \in 1..MaxDeltaBlocks :
          \E n \in 0..StreamValues(PatternStream("mixed", w1, w2, 1, minDelta, nb)) :
             D2Start(PatternStream("mixed", w1, w2, 1, minDelta, nb), n, n)

InitDelta2 ==
    D2Init /\ AsmIdle /\ RleIdle /\ MdIdle /\ ThIdle /\ ViIdle /\ PlIdle
    /\ PgIdle /\ RnIdle /\ DlIdle /\ WkIdle

NextDelta2 == D2ReadHeader \/ D2ReadFirst \/ D2Block \/ D2Miniblock \/ D2ReadByte \/ D2Push

SpecDelta2 == InitDelta2 /\ [][NextDelta2]_vars

\* the function runs on: a step that can be taken is taken
SpecDelta2Live == SpecDelta2 /\ WF_vars(NextDelta2)

\* C29: readDataPageV2 on a DELTA_BINARY_PACKED page without nulls, hence
\* its deltaBinaryUnpack on a well-formed stream read for the number of
\* values of its header, terminates: in the end it has returned or, the
\* weakest reading, thrown; it does not loop for ever.
C29_Terminates == <>(d2Pc \in {"done", "error"})

----------------------------------------------------------------------------
(* self.onmessage of the demo worker. Every message starts a run of the    *)
(* async handler; the runs interleave at their two awaits.                  *)

WkFrame ==
    UNCHANGED <<asmVars, rleVars, mdVars, thVars, viVars, plVars, pgVars, rnVars,
                dlVars, d2Vars>>

\* self.postMessage(msg)
PostMessage(msg) == wkPosted' = Append(wkPosted, msg)

\* a message arrives: data is destructured and asyncBufferFrom is called
WkMessage(q) ==
    /\ wkPc[q] = "idle"
    /\ wkPc' = [wkPc EXCEPT ![q] = "open"]
    /\ UNCHANGED <<wkData, wkPosted, wkChunks>>
    /\ WkFrame

\* `await asyncBufferFrom(asyncBuffer)` resolves: onChunk is made and
\* parquetQuery is called
WkOpened(q) ==
    /\ wkPc[q] = "open"
    /\ wkPc' = [wkPc EXCEPT ![q] = "query"]
    /\ UNCHANGED <<wkData, wkPosted, wkChunks>>
    /\ WkFrame

\* `await asyncBufferFrom(asyncBuffer)` rejects: the await is in front of the
\* try, so the promise of the handler rejects and nothing is posted
WkOpenFailed(q) ==
    /\ wkPc[q] = "open"
    /\ wkPc' = [wkPc EXCEPT ![q] = "rejected"]
    /\ UNCHANGED <<wkData, wkPosted, wkChunks>>
    /\ WkFrame

\* parquetQuery calls onChunk: chunk => self.postMessage({ chunk, queryId }),
\* which exists only when data.chunks is set
WkChunk(q) ==
    /\ wkPc[q] = "query"
    /\ wkData[q].chunks
    /\ wkChunks[q] < MaxChunks
    /\ wkChunks' = [wkChunks EXCEPT ![q] = @ + 1]
    /\ PostMessage([kind |-> "chunk", queryId |-> wkData[q].queryId])
    /\ UNCHANGED <<wkData, wkPc>>
    /\ WkFrame

\* `await parquetQuery(...)` resolves: self.postMessage({ result, queryId })
WkResult(q) ==
    /\ wkPc[q] = "query"
    /\ wkPc' = [wkPc EXCEPT ![q] = "done"]
    /\ PostMessage([kind |-> "result", queryId |-> wkData[q].queryId])
    /\ UNCHANGED <<wkData, wkChunks>>
    /\ WkFrame

\* `await parquetQuery(...)` rejects: self.postMessage({ error, queryId })
WkError(q) ==
    /\ wkPc[q] = "query"
    /\ wkPc' = [wkPc EXCEPT ![q] = "done"]
    /\ PostMessage([kind |-> "error", queryId |-> wkData[q].queryId])
    /\ UNCHANGED <<wkData, wkChunks>>
    /\ WkFrame

\* the steps of the handler of query q
WkStep(q) ==
    WkMessage(q) \/ WkOpened(q) \/ WkOpenFailed(q) \/ WkChunk(q) \/ WkResult(q)
    \/ WkError(q)

\* the client has made its requests, with or without chunks
WkInit ==
    /\ \E c \in [QueryIds -> BOOLEAN] :
          wkData = [q \in QueryIds |-> [queryId |-> q, chunks |-> c[q]]]
    /\ wkPosted = <<>>
    /\ wkChunks = [q \in QueryIds |-> 0]
    /\ wkPc = [q \in QueryIds |-> "idle"]

InitWorker ==
    WkInit /\ AsmIdle /\ RleIdle /\ MdIdle /\ ThIdle /\ ViIdle /\ PlIdle
    /\ PgIdle /\ RnIdle /\ DlIdle /\ D2Idle

NextWorker ==
    \/ \E q \in QueryIds : WkMessage(q)
    \/ \E q \in QueryIds : WkOpened(q)
    \/ \E q \in QueryIds : WkOpenFailed(q)
    \/ \E q \in QueryIds : WkChunk(q)
    \/ \E q \in QueryIds : WkResult(q)
    \/ \E q \in QueryIds : WkError(q)

SpecWorker == InitWorker /\ [][NextWorker]_vars

\* every message is delivered and every promise awaited settles: the
\* handler of each query goes on while it has a step to take
SpecWorkerLive == SpecWorker /\ \A q \in QueryIds : WF_vars(WkStep(q))

\* the terminal messages posted for query q
Terminals(q) ==
    SelectSeq(wkPosted, LAMBDA m : m.queryId = q /\ m.kind \in {"result", "error"})

\* C30: for every query message the worker posts exactly one terminal
\* message, {result, queryId} or {error, queryId}, with the queryId of that
\* message, also when opening the async buffer fails: a handler that has
\* ended has posted its one terminal message.
C30_OneTerminal ==
    \A q \in QueryIds :
       wkPc[q] \in {"done", "rejected"} => Len(Terminals(wkData[q].queryId)) = 1

\* the same as a property of the whole run: a message received leads to its
\* terminal message
C30_EventuallyTerminal ==
    \A q \in QueryIds :
       (wkPc[q] = "open") ~> (Len(Terminals(wkData[q].queryId)) = 1)

\* the rest of the claim: chunks are posted only for requests that set
\* chunks, never after the terminal message, and no query has two terminals
C30_ChunksInOrder ==
    /\ \A k \in 1..Len(wkPosted) :
          wkPosted[k].kind = "chunk" =>
             /\ \E q \in QueryIds :
                   wkData[q].queryId = wkPosted[k].queryId /\ wkData[q].chunks
             /\ \A j \in 1..(k - 1) :
                   wkPosted[j].queryId = wkPosted[k].queryId =>
                      wkPosted[j].kind = "chunk"
    /\ \A q \in QueryIds : Len(Terminals(q)) <= 1

====
